---- MODULE Spec2Model ----
(***************************************************************************)
(* A model of wrapid's binding-generation engine: the declaration model    *)
(* (wrapid/decl.py), the type mapper (ctgen/types.py) and the ctypes       *)
(* emitter (wrapid/ctgen/ctypes_code_generator.py).                        *)
(*                                                                         *)
(* The parsed header is an input: a sequence of top-level cursors drawn    *)
(* from a fixed pool.  The selection calls (include, include_forward,      *)
(* include_opaque_type, rename) and write_module are the actions.          *)
(*                                                                         *)
(* Specifications: Spec (selection and write_module), SpecCoders (headers  *)
(* with comment tokens), SpecTU and SpecAny (the walk over a translation   *)
(* unit), SpecTypes (the type mapper on its own).                          *)
(***************************************************************************)
EXTENDS Integers, Sequences, FiniteSets, TLC

(***************************************************************************)
(* Bounds of the model.                                                    *)
(***************************************************************************)
\* selection calls (include, include_forward, include_opaque_type, rename) per run
MaxCalls == 2
\* wrappers created outside the index (forward clones, opaque placeholders)
MaxExtra == 1
\* write_module calls per run
MaxWrites == 2

(***************************************************************************)
(* clang types.  A type is a record tagged by its TypeKind; a named type   *)
(* (record, enum, typedef) carries the cursor of its declaration.          *)
(***************************************************************************)
TInt == [k |-> "INT"]
TChar == [k |-> "CHAR_S"]
TFloat == [k |-> "FLOAT"]
TVoid == [k |-> "VOID"]
TNamed(kind, c) == [k |-> kind, decl |-> c]
TElaborated(c) == [k |-> "ELABORATED", decl |-> c]
TPointer(t) == [k |-> "POINTER", to |-> t]
TArray(t, n) == [k |-> "CONSTANTARRAY", elem |-> t, count |-> n]
TProto(r, args) == [k |-> "FUNCTIONPROTO", result |-> r, args |-> args]
\* a type of a kind the mapper has no case for, known by its spelling
TUnknown(kind, spelling) == [k |-> kind, spelling |-> spelling]
NoType == [k |-> "INVALID"]

(***************************************************************************)
(* The cursor pool: the declarations a header of the model can hold.       *)
(*   A         struct A { int number; char letter; };                      *)
(*   B         struct B { struct A *a; };                                  *)
(*   Z         struct Z { };                                               *)
(*   U         union U { int i; float f; };                                *)
(*   IntAlias  typedef int IntAlias;                                       *)
(*   Noop      typedef struct A A;                                         *)
(*   Level     enum Level { LOW = 0, MEDIUM = 1, HIGH = 2 };               *)
(*   DCTSIZE   #define DCTSIZE 8                                           *)
(*   F         int f(int);                                                 *)
(* A cursor is known by its place in the table (its hash).                 *)
(***************************************************************************)
C == [A |-> 1, B |-> 2, Z |-> 3, U |-> 4, IntAlias |-> 5, Noop |-> 6,
      Level |-> 7, DCTSIZE |-> 8, F |-> 9, NEG |-> 10, EMPTY |-> 11, SUM |-> 12,
      TRAIL |-> 13, PAIR |-> 14, STDC |-> 15]

\* a field declaration; brackets: the identifier written between [ and ], or ""
Field(n, t) == [spelling |-> n, type |-> t, brackets |-> ""]

\* typeTag \o spelling is the spelling of the cursor's type ("struct A")
BlankCursor == [kind |-> "NO_DECL_FOUND", spelling |-> "", typeTag |-> "", typeKind |-> "INVALID",
                fields |-> <<>>, consts |-> <<>>, tokens |-> <<>>, utype |-> NoType,
                children |-> <<>>, brackets |-> "", file |-> TRUE]

CursorTable ==
  <<
    [BlankCursor EXCEPT !.kind = "STRUCT_DECL", !.spelling = "A", !.typeTag = "struct ",
                  !.typeKind = "RECORD",
                  !.fields = <<Field("number", TInt), Field("letter", TChar)>>],
    [BlankCursor EXCEPT !.kind = "STRUCT_DECL", !.spelling = "B", !.typeTag = "struct ",
                  !.typeKind = "RECORD",
                  !.fields = <<Field("a", TPointer(TElaborated(C.A)))>>],
    [BlankCursor EXCEPT !.kind = "STRUCT_DECL", !.spelling = "Z", !.typeTag = "struct ",
                  !.typeKind = "RECORD"],
    [BlankCursor EXCEPT !.kind = "UNION_DECL", !.spelling = "U", !.typeTag = "union ",
                  !.typeKind = "RECORD",
                  !.fields = <<Field("i", TInt), Field("f", TFloat)>>],
    [BlankCursor EXCEPT !.kind = "TYPEDEF_DECL", !.spelling = "IntAlias",
                  !.typeKind = "TYPEDEF", !.utype = TInt],
    [BlankCursor EXCEPT !.kind = "TYPEDEF_DECL", !.spelling = "A",
                  !.typeKind = "TYPEDEF", !.utype = TElaborated(C.A)],
    [BlankCursor EXCEPT !.kind = "ENUM_DECL", !.spelling = "Level", !.typeTag = "enum ",
                  !.typeKind = "ENUM",
                  !.consts = <<[spelling |-> "LOW", enum_value |-> 0],
                               [spelling |-> "MEDIUM", enum_value |-> 1],
                               [spelling |-> "HIGH", enum_value |-> 2]>>],
    [BlankCursor EXCEPT !.kind = "MACRO_DEFINITION", !.spelling = "DCTSIZE",
                  !.tokens = <<"DCTSIZE", "8">>],
    [BlankCursor EXCEPT !.kind = "FUNCTION_DECL", !.spelling = "f",
                  !.typeKind = "FUNCTIONPROTO",
                  !.children = <<[kind |-> "PARM_DECL", type |-> TInt]>>],
    [BlankCursor EXCEPT !.kind = "MACRO_DEFINITION", !.spelling = "NEG",
                  !.tokens = <<"NEG", "-", "1">>],
    [BlankCursor EXCEPT !.kind = "MACRO_DEFINITION", !.spelling = "EMPTY",
                  !.tokens = <<"EMPTY">>],
    [BlankCursor EXCEPT !.kind = "MACRO_DEFINITION", !.spelling = "SUM",
                  !.tokens = <<"SUM", "1", "+", "2">>],
    [BlankCursor EXCEPT !.kind = "MACRO_DEFINITION", !.spelling = "TRAIL",
                  !.tokens = <<"TRAIL", "1", "-">>],
    [BlankCursor EXCEPT !.kind = "MACRO_DEFINITION", !.spelling = "PAIR",
                  !.tokens = <<"PAIR", "unsigned", "int">>],
    \* a macro the compiler predefines: its location has no file
    [BlankCursor EXCEPT !.kind = "MACRO_DEFINITION", !.spelling = "__STDC__",
                  !.tokens = <<"__STDC__", "1">>, !.file = FALSE]
  >>

NumCursors == Len(CursorTable)
CursorIds == 1..NumCursors

\* cursor.type: the type a declaration declares
DeclType(c) == TNamed(CursorTable[c].typeKind, c)

\* clang_type.get_declaration(): the declaring cursor, or 0 for NO_DECL_FOUND
GetDeclaration(t) ==
  IF t.k \in {"RECORD", "ENUM", "TYPEDEF", "ELABORATED"} THEN t.decl ELSE 0

\* clang_type.spelling of a named type
TypeSpelling(t) ==
  IF t.k \in {"RECORD", "ENUM", "TYPEDEF", "ELABORATED"}
  THEN [tag |-> CursorTable[t.decl].typeTag, name |-> CursorTable[t.decl].spelling]
  ELSE [tag |-> "", name |-> t.spelling]

(***************************************************************************)
(* The type mapper (ctgen/types.py).                                       *)
(***************************************************************************)
primitive_ctype_for_clang_type ==
  [BOOL |-> "c_bool", CHAR_S |-> "c_char", CHAR_U |-> "c_ubyte", DOUBLE |-> "c_double",
   FLOAT |-> "c_float", INT |-> "c_int", LONG |-> "c_long", LONGDOUBLE |-> "c_longdouble",
   LONGLONG |-> "c_longlong", SCHAR |-> "c_char", SHORT |-> "c_short", UCHAR |-> "c_ubyte",
   UINT |-> "c_uint", ULONG |-> "c_ulong", ULONGLONG |-> "c_ulonglong",
   USHORT |-> "c_ushort", WCHAR |-> "c_wchar"]

\* a mapped type: its class, the clang type it wraps, the primitive's symbol, and
\* the bracket identifier of the declaration it was mapped for (ConstantArrayType)
WT(cls, t, symbol, brackets) ==
  [cls |-> cls, clang |-> t, symbol |-> symbol, brackets |-> brackets]

\* the mapper without its case for pointers to char
RECURSIVE WTypeWithoutCharPointer(_, _)
WTypeWithoutCharPointer(t, brackets) ==
  IF t.k \in DOMAIN primitive_ctype_for_clang_type
  THEN WT("PrimitiveCTypesType", t, primitive_ctype_for_clang_type[t.k], "")
  ELSE IF t.k = "CONSTANTARRAY" THEN WT("ConstantArrayType", t, "", brackets)
  ELSE IF t.k = "ELABORATED" THEN WTypeWithoutCharPointer(DeclType(t.decl), "")
  ELSE IF t.k = "FUNCTIONPROTO" THEN WT("FunctionPointerType", t, "", "")
  ELSE IF t.k = "POINTER"
  THEN IF t.to.k = "FUNCTIONPROTO" THEN WT("FunctionPointerType", t.to, "", "")
       ELSE IF t.to.k = "VOID" THEN WT("PrimitiveCTypesType", t, "c_void_p", "")
       ELSE IF t.to.k = "WCHAR" THEN WT("PrimitiveCTypesType", t, "c_wchar_p", "")
       ELSE WT("PointerType", t, "", "")
  ELSE IF t.k = "VOID" THEN WT("VoidType", t, "", "")
  ELSE WT("WCTypesType", t, "", "")

RECURSIVE w_type_for_clang_type(_, _)
w_type_for_clang_type(t, brackets) ==
  IF t.k \in DOMAIN primitive_ctype_for_clang_type
  THEN WT("PrimitiveCTypesType", t, primitive_ctype_for_clang_type[t.k], "")
  ELSE IF t.k = "CONSTANTARRAY" THEN WT("ConstantArrayType", t, "", brackets)
  ELSE IF t.k = "ELABORATED" THEN w_type_for_clang_type(DeclType(t.decl), "")
  ELSE IF t.k = "FUNCTIONPROTO" THEN WT("FunctionPointerType", t, "", "")
  ELSE IF t.k = "POINTER"
  THEN IF t.to.k \in {"CHAR_S", "SCHAR"} THEN WT("PrimitiveCTypesType", t, "c_char_p", "")
       ELSE IF t.to.k = "FUNCTIONPROTO" THEN WT("FunctionPointerType", t.to, "", "")
       ELSE IF t.to.k = "VOID" THEN WT("PrimitiveCTypesType", t, "c_void_p", "")
       ELSE IF t.to.k = "WCHAR" THEN WT("PrimitiveCTypesType", t, "c_wchar_p", "")
       ELSE WT("PointerType", t, "", "")
  ELSE IF t.k = "VOID" THEN WT("VoidType", t, "", "")
  ELSE WT("WCTypesType", t, "", "")

\* ConstantArrayType.element_count: the identifier between the brackets of the
\* declaration when there is one, else the type's element count
element_count(w) ==
  IF w.brackets # "" THEN w.brackets ELSE ToString(w.clang.count)

RECURSIVE JoinStr(_, _)
JoinStr(ss, sep) ==
  IF ss = <<>> THEN ""
  ELSE IF Len(ss) = 1 THEN ss[1]
  ELSE ss[1] \o sep \o JoinStr(Tail(ss), sep)

\* __str__ of a mapped type: the text it renders to
RECURSIVE TypeStr(_)
TypeStr(w) ==
  CASE w.cls = "PrimitiveCTypesType" -> w.symbol
    [] w.cls = "ConstantArrayType" ->
         TypeStr(w_type_for_clang_type(w.clang.elem, "")) \o " * " \o element_count(w)
    [] w.cls = "FunctionPointerType" ->
         "CFUNCTYPE(" \o TypeStr(w_type_for_clang_type(w.clang.result, "")) \o ", "
           \o JoinStr([i \in DOMAIN w.clang.args |->
                         TypeStr(w_type_for_clang_type(w.clang.args[i], ""))], ", ")
           \o ")"
    [] w.cls = "PointerType" ->
         "POINTER(" \o TypeStr(w_type_for_clang_type(w.clang.to, "")) \o ")"
    [] w.cls = "VoidType" -> "None"
    [] OTHER ->
         LET sp == TypeSpelling(w.clang)
         IN  IF sp.tag = "struct " THEN sp.name ELSE sp.tag \o sp.name

\* the alias of a mapped type, as a field line names it: the text it renders to
TypeAlias(w) == TypeStr(w)

RECURSIVE UnionSeq(_)
UnionSeq(ss) == IF ss = <<>> THEN {} ELSE ss[1] \cup UnionSeq(Tail(ss))

\* imports(): the (module, symbol) pairs a mapped type needs
RECURSIVE TypeImports(_)
TypeImports(w) ==
  CASE w.cls = "PrimitiveCTypesType" -> {<<"ctypes", w.symbol>>}
    [] w.cls = "ConstantArrayType" -> TypeImports(w_type_for_clang_type(w.clang.elem, ""))
    [] w.cls = "FunctionPointerType" ->
         {<<"ctypes", "CFUNCTYPE">>}
           \cup TypeImports(w_type_for_clang_type(w.clang.result, ""))
           \cup UnionSeq([i \in DOMAIN w.clang.args |->
                            TypeImports(w_type_for_clang_type(w.clang.args[i], ""))])
    [] w.cls = "PointerType" ->
         {<<"ctypes", "POINTER">>} \cup TypeImports(w_type_for_clang_type(w.clang.to, ""))
    [] OTHER -> {}

\* WCTypesType.dependencies(): the declaration of the wrapped type, if it has one
BaseDependencies(w) ==
  IF GetDeclaration(w.clang) # 0 THEN {GetDeclaration(w.clang)} ELSE {}

\* dependencies(): the cursors named by a mapped type
RECURSIVE TypeDependencies(_)
TypeDependencies(w) ==
  CASE w.cls = "ConstantArrayType" ->
         TypeDependencies(w_type_for_clang_type(w.clang.elem, ""))
    [] w.cls = "FunctionPointerType" -> {}
    [] w.cls = "PointerType" ->
         BaseDependencies(w) \cup TypeDependencies(w_type_for_clang_type(w.clang.to, ""))
    [] OTHER -> BaseDependencies(w)

\* no type was handed to the mapper yet
NotMapped == [status |-> "none"]

\* a mapped type with what its methods return
Mapped(w) ==
  [status |-> "mapped", w |-> w, str |-> TypeStr(w), imports |-> TypeImports(w),
   dependencies |-> TypeDependencies(w)]

(***************************************************************************)
(* The headers of the model: the top-level cursors of the translation      *)
(* unit in the order its iteration yields them.                            *)
(***************************************************************************)
Headers ==
  { <<C.A, C.B>>, <<C.B, C.A>>, <<C.Z, C.U>>, <<C.Noop, C.IntAlias>>,
    <<C.IntAlias, C.Level, C.DCTSIZE>>, <<C.F, C.B>>, <<C.B, C.Noop>>,
    <<C.Level, C.IntAlias, C.Z>> }

\* the names rename() is called with
RenameTo == {"c_int"}

\* the library handle a generator is constructed with: None (<<>>), or (name, path)
NoLibrary == <<>>
Libraries == {NoLibrary, <<"lib", "libfoo.so">>}

Range(s) == {s[i] : i \in DOMAIN s}

VARIABLES
  hdr,      \* the parsed header: its top-level cursors in iteration order
  library,  \* CTypesCodeGenerator.library
  setOrder, \* the order a loop over a set of wrappers visits them in this run
  wr,       \* the wrappers: wr[c] for c <= NumCursors is the index's wrapper of
            \* cursor c; later entries are forward clones and opaque placeholders
  calls,    \* selection calls made so far
  writes,   \* write_module calls made so far
  gen,      \* the generator's accumulators (imports, all_section_cursors, ...)
  out,      \* what the last write_module call wrote, and how it ended
  prev,     \* what the write_module call before the last wrote
  comments, \* module_builder.comment_index: the comment tokens of the header
  tu,       \* the children of a translation unit's cursor, in the order they arrive
  yielded,  \* what an iteration of the TranslationUnitIterable over tu yielded
  query,    \* the last singleton query on the root group over tu, and how it ended
  clang_type, \* a clang type handed to the type mapper
  mapped    \* what the type mapper made of clang_type

vars == <<hdr, library, setOrder, wr, calls, writes, gen, out, prev, comments,
          tu, yielded, query, clang_type, mapped>>

\* the variables of the translation-unit walk
tuvars == <<tu, yielded, query>>

\* the variables of selection and generation
genvars == <<hdr, library, setOrder, wr, calls, writes, gen, out, prev, comments>>


(***************************************************************************)
(* The declaration model (wrapid/decl.py).                                 *)
(***************************************************************************)
\* DeclWrapper.__init__ (and StructUnionWrapper's, OpaqueWrapper's): alias "" is None
NewWrapper(c, kind) ==
  [cursor |-> c, kind |-> kind, alias |-> "", included |-> FALSE, exported |-> FALSE,
   preds |-> {}, decl_type |-> "FULL"]

\* a lookup whose key collides with that of the first cursor: every cursor gets
\* the wrapper of that one
IndexGetColliding(c) == NewWrapper(C.A, CursorTable[C.A].kind)

\* WrappedDeclIndex.get: one wrapper per cursor, made on the first lookup; the
\* wrapper of cursor c is wr[c], and an untouched wrapper is as the lookup makes it
IndexGet(c) == NewWrapper(c, CursorTable[c].kind)

\* DeclWrapper.name
Name(w) ==
  IF w.kind = "STRUCT_DECL" /\ CursorTable[w.cursor].spelling = ""
  THEN CursorTable[w.cursor].typeTag \o CursorTable[w.cursor].spelling
  ELSE CursorTable[w.cursor].spelling

\* DeclWrapper.alias
Alias(w) == IF w.alias # "" THEN w.alias ELSE Name(w)

\* DeclWrapper.__copy__
Copy(w) == [NewWrapper(w.cursor, w.kind) EXCEPT !.alias = w.alias, !.included = w.included]

\* DeclWrapper.add_predecessor, on the wrapper table
AddPredecessor(tbl, before, p) ==
  IF before = 0 THEN tbl ELSE [tbl EXCEPT ![before].preds = @ \cup {p}]

\* DeclWrapper.include without its first statement: the variant C3 tells apart
IncludeWithoutIncluded(tbl, w, export, before) ==
  AddPredecessor([tbl EXCEPT ![w].exported = export], before, w)

\* DeclWrapper.include, on the wrapper table
DoInclude(tbl, w, export, before) ==
  AddPredecessor([tbl EXCEPT ![w].included = TRUE, ![w].exported = export], before, w)

TopLevel == Range(hdr)
StructsUnions == {c \in TopLevel : CursorTable[c].kind \in {"STRUCT_DECL", "UNION_DECL"}}

Include(w, export, before) ==
  /\ calls < MaxCalls
  /\ wr' = DoInclude(wr, w, export, before)
  /\ calls' = calls + 1
  /\ UNCHANGED <<hdr, library, setOrder, writes, gen, out, prev, comments, tu, yielded, query,
               clang_type, mapped>>

\* BaseDeclGroup.include over the group of one kind (enums(), structs(), ...),
\* or over the whole root group ("ALL")
RECURSIVE IncludeEach(_, _)
IncludeEach(tbl, cs) ==
  IF cs = <<>> THEN tbl ELSE IncludeEach(DoInclude(tbl, cs[1], TRUE, 0), Tail(cs))

GroupKinds == {"ENUM_DECL", "FUNCTION_DECL", "MACRO_DEFINITION", "STRUCT_DECL",
               "TYPEDEF_DECL", "UNION_DECL", "ALL"}

Group(kind) == SelectSeq(hdr, LAMBDA c : kind = "ALL" \/ CursorTable[c].kind = kind)

IncludeGroup(kind) ==
  /\ calls < MaxCalls
  /\ Group(kind) # <<>>
  /\ wr' = IncludeEach(wr, Group(kind))
  /\ calls' = calls + 1
  /\ UNCHANGED <<hdr, library, setOrder, writes, gen, out, prev, comments, tu, yielded, query,
               clang_type, mapped>>

\* StructUnionWrapper.include_forward
IncludeForward(w, before, export) ==
  /\ calls < MaxCalls
  /\ Len(wr) < NumCursors + MaxExtra
  /\ LET n == Len(wr) + 1
         forward_decl == [Copy(wr[w]) EXCEPT !.decl_type = "FORWARD_ONLY",
                                             !.exported = export]
         tbl == Append([wr EXCEPT ![w].decl_type = "DEFINITION_ONLY"], forward_decl)
     IN  wr' = DoInclude(tbl, n, export, before)
  /\ calls' = calls + 1
  /\ UNCHANGED <<hdr, library, setOrder, writes, gen, out, prev, comments, tu, yielded, query,
               clang_type, mapped>>

\* the fields include_opaque_type can be called on: its two assertions hold
OpaqueFields ==
  {<<c, i>> \in StructsUnions \X (1..2) :
     /\ i \in DOMAIN CursorTable[c].fields
     /\ CursorTable[c].fields[i].type.k = "POINTER"
     /\ GetDeclaration(CursorTable[c].fields[i].type.to) # 0}

\* DeclWrapper.include_opaque_type, called on field i of struct/union c
IncludeOpaqueType(c, i, before, export) ==
  /\ calls < MaxCalls
  /\ Len(wr) < NumCursors + MaxExtra
  /\ LET n == Len(wr) + 1
         decl == GetDeclaration(CursorTable[c].fields[i].type.to)
         forward_decl == NewWrapper(decl, "OPAQUE")
     IN  wr' = DoInclude(Append(wr, forward_decl), n, export, before)
  /\ calls' = calls + 1
  /\ UNCHANGED <<hdr, library, setOrder, writes, gen, out, prev, comments, tu, yielded, query,
               clang_type, mapped>>

\* DeclWrapper.rename
Rename(w, name) ==
  /\ calls < MaxCalls
  /\ wr' = [wr EXCEPT ![w].alias = name]
  /\ calls' = calls + 1
  /\ UNCHANGED <<hdr, library, setOrder, writes, gen, out, prev, comments, tu, yielded, query,
               clang_type, mapped>>

(***************************************************************************)
(* The emitter (wrapid/ctgen/ctypes_code_generator.py).                    *)
(*                                                                         *)
(* A line is its text s, tagged with the wrapper w whose coder yielded it  *)
(* (0: none), with the number e of that coder call among the coder calls   *)
(* of the write_module call (0: none) and with the statement t of the      *)
(* coder that yielded it.                                                  *)
(***************************************************************************)
Line(w, t, s) == [w |-> w, e |-> 0, t |-> t, s |-> s]

\* The names of the model in the order sorted() puts them (by code point)
NameOrder ==
  <<"A", "B", "CFUNCTYPE", "DCTSIZE", "EMPTY", "IntAlias", "IntFlag", "Level", "NEG",
    "PAIR", "POINTER", "R", "SUM", "Structure", "TRAIL", "U", "Union", "Z", "__STDC__",
    "a", "c_bool", "c_char", "c_char_p", "c_double",
    "c_float", "c_int", "c_long", "c_longdouble", "c_longlong", "c_short", "c_ubyte",
    "c_uint", "c_ulong", "c_ulonglong", "c_ushort", "c_void_p", "c_wchar", "c_wchar_p",
    "cdll", "f", "i", "letter", "number">>

Rank(name) == CHOOSE i \in DOMAIN NameOrder : NameOrder[i] = name

\* sorted(names), for a list of names
RECURSIVE SortNames(_)
SortNames(names) ==
  IF names = <<>> THEN <<>>
  ELSE LET m == CHOOSE i \in DOMAIN names :
                  \A j \in DOMAIN names :
                     Rank(names[i]) < Rank(names[j]) \/ (Rank(names[i]) = Rank(names[j]) /\ i <= j)
       IN  <<names[m]>> \o SortNames(SubSeq(names, 1, m - 1) \o SubSeq(names, m + 1, Len(names)))

\* a set listed in the order a loop over it visits its members
RECURSIVE SetToSeq(_, _)
SetToSeq(S, desc) ==
  IF S = {} THEN <<>>
  ELSE LET x == IF desc THEN CHOOSE y \in S : \A z \in S : z <= y
                        ELSE CHOOSE y \in S : \A z \in S : y <= z
       IN  <<x>> \o SetToSeq(S \ {x}, desc)

\* CTypesCodeGenerator.__init__: the accumulators of a new generator; imports is a
\* dict (modules in insertion order)
NewGenerator == [imports |-> <<>>, all |-> {}, unexposed |-> <<>>]

\* write_module without its clear() calls: the variant C13 tells apart
KeepAccumulators(acc) == acc

\* the three clear() calls at the entry of write_module
ClearAccumulators(acc) ==
  [acc EXCEPT !.imports = <<>>, !.all = {}, !.unexposed = <<>>]

\* write_module with body_lines kept from the call before: the variant C12 tells
\* apart
EmptyGenKeepingLines(acc) ==
  [imports |-> acc.imports, all |-> acc.all, unexposed |-> acc.unexposed,
   pbl |-> 0, lines |-> out.body, err |-> "", e |-> 0]

\* write_module's state before its loop, over the accumulators acc:
\* previous_blank_lines and lines are its body_spacer and body_lines, err the
\* exception that ended the call, e the number of coder calls made
EmptyGen(acc) ==
  [imports |-> acc.imports, all |-> acc.all, unexposed |-> acc.unexposed,
   pbl |-> 0, lines |-> <<>>, err |-> "", e |-> 0]

\* Spacer.indent
Indent(n) == JoinStr([i \in 1..n |-> "    "], "")

Blanks(w, n) == [i \in 1..n |-> Line(w, "blank", "")]

\* the lines a coder yields are appended to body_lines, until an assertion of the
\* coder fails (a line tagged "raise")
Yield(g, ls) ==
  IF g.err # "" THEN g
  ELSE IF \E i \in DOMAIN ls : ls[i].t = "raise" THEN [g EXCEPT !.err = "AssertionError"]
  ELSE [g EXCEPT !.lines = @ \o [i \in DOMAIN ls |-> [ls[i] EXCEPT !.e = g.e]]]

\* Spacer.pad_to
pad_to(g, w, n) ==
  IF n <= g.pbl THEN g ELSE Yield(g, Blanks(w, n - g.pbl))

\* Spacer.end_pad
end_pad(g, w, n) == Yield([g EXCEPT !.pbl = n], Blanks(w, n))

\* CTypesCodeGenerator.set_import
set_import(g, module, name) ==
  IF \E i \in DOMAIN g.imports : g.imports[i].module = module
  THEN [g EXCEPT !.imports =
          [i \in DOMAIN @ |-> IF @[i].module = module
                              THEN [@[i] EXCEPT !.names = @ \cup {name}] ELSE @[i]]]
  ELSE [g EXCEPT !.imports = Append(@, [module |-> module, names |-> {name}])]

\* CTypesCodeGenerator.load_imports
RECURSIVE SetImports(_, _)
SetImports(g, pairs) ==
  IF pairs = {} THEN g
  ELSE LET p == CHOOSE q \in pairs : TRUE
       IN  SetImports(set_import(g, p[1], p[2]), pairs \ {p})

\* a generator that registers no import for the types it renders
LoadImportsNone(g, wt) == g

load_imports(g, wt) == SetImports(g, TypeImports(wt))

\* CTypesCodeGenerator.add_all_cursor
add_all_cursor(g, w) == [g EXCEPT !.all = @ \cup {w}]

\* CTypesCodeGenerator.check_dependency; the depender is cursor c, or field f of it
RECURSIVE RecordDependees(_, _, _)
RecordDependees(g, dependees, depender) ==
  IF dependees = {} THEN g
  ELSE LET d == CHOOSE x \in dependees : TRUE
           rest == dependees \ {d}
       IN  IF wr[d].included THEN RecordDependees(g, rest, depender)
           ELSE IF \E i \in DOMAIN g.unexposed : g.unexposed[i].dependee = d
           THEN RecordDependees(
                  [g EXCEPT !.unexposed =
                     [i \in DOMAIN @ |->
                        IF @[i].dependee = d /\ depender \notin Range(@[i].dependers)
                        THEN [@[i] EXCEPT !.dependers = Append(@, depender)] ELSE @[i]]],
                  rest, depender)
           ELSE RecordDependees(
                  [g EXCEPT !.unexposed =
                     Append(@, [dependee |-> d, dependers |-> <<depender>>])],
                  rest, depender)

\* a coder that leaves out its check_dependency call: the variant C14 tells apart
CheckDependencyNone(g, wt, depender) == g

check_dependency(g, wt, depender) == RecordDependees(g, TypeDependencies(wt), depender)

(***************************************************************************)
(* Comments.  The header's text puts the declaration at place p of hdr on  *)
(* line 10 * p, its fields or constants on the lines that follow, one      *)
(* each, and its closing brace on the line after them.  A comment token    *)
(* is a record: the lines it starts and ends on, whether it is the only    *)
(* token that starts on its start line, and its text, line by line,        *)
(* without the comment marks.  All tokens are of the header's one file,    *)
(* which has an entry in the comment index when it holds a comment.        *)
(***************************************************************************)
Position(c) == IF c \in Range(hdr) THEN CHOOSE i \in DOMAIN hdr : hdr[i] = c ELSE 0

\* cursor.extent.start.line of declaration c (f = 0) or of its field f
StartLine(c, f) == 10 * Position(c) + f

\* cursor.extent.end.line of declaration c (f = 0) or of its field f
EndLine(c, f) ==
  IF f # 0 THEN StartLine(c, f)
  ELSE IF CursorTable[c].fields # <<>> THEN StartLine(c, Len(CursorTable[c].fields) + 1)
  ELSE IF CursorTable[c].consts # <<>> THEN StartLine(c, Len(CursorTable[c].consts) + 1)
  ELSE StartLine(c, 0)

\* _py_comment_from_token: the python comment of the token's text
py_comment_from_token(token) == [i \in DOMAIN token.text |-> "# " \o token.text[i]]

\* file_ix["end_line"].get(line): the comments alone on their start line that end
\* on the line
EndLineIndex(line) == {t \in comments : t.alone /\ t.end = line}

\* file_ix["start_line"].get(line)
StartLineIndex(line) == {t \in comments : t.start = line}

Raise(w) == <<Line(w, "raise", "AssertionError")>>

\* above_comment that yields nothing when several comments end on the line
AboveCommentUnlessSeveral(w, c, f, ind) ==
  IF ~CursorTable[c].file \/ comments = {} THEN <<>>
  ELSE IF Cardinality(EndLineIndex(StartLine(c, f) - 1)) # 1 THEN <<>>
  ELSE LET comment == py_comment_from_token(
                        CHOOSE t \in EndLineIndex(StartLine(c, f) - 1) : TRUE)
       IN  [i \in DOMAIN comment |-> Line(w, "above", Indent(ind) \o comment[i])]

\* CTypesCodeGenerator.above_comment, for declaration c (f = 0) or its field f,
\* at indentation ind
AboveComment(w, c, f, ind) ==
  IF ~CursorTable[c].file THEN <<>>
  ELSE IF comments = {} THEN <<>>
  ELSE IF EndLineIndex(StartLine(c, f) - 1) = {} THEN <<>>
  ELSE IF Cardinality(EndLineIndex(StartLine(c, f) - 1)) # 1 THEN Raise(w)
  ELSE LET comment == py_comment_from_token(
                        CHOOSE t \in EndLineIndex(StartLine(c, f) - 1) : TRUE)
       IN  [i \in DOMAIN comment |-> Line(w, "above", Indent(ind) \o comment[i])]

above_comment(w, c) == AboveComment(w, c, 0, 0)

\* right_comment that takes the first of several comments on the line
RightCommentPickingOne(w, c, f, t, code) ==
  IF ~CursorTable[c].file THEN <<>>
  ELSE IF comments = {} \/ StartLineIndex(EndLine(c, f)) = {} THEN <<Line(w, t, code)>>
  ELSE LET comment == py_comment_from_token(
                        CHOOSE x \in StartLineIndex(EndLine(c, f)) : TRUE)
       IN  IF comment = <<>> THEN <<Line(w, t, code)>>
           ELSE <<Line(w, t, code \o "  " \o comment[1])>>

\* CTypesCodeGenerator.right_comment, for declaration c (f = 0) or its field f.
\* The comments of the model that start on a declaration's line have one line
\* of text, so the loop over the further lines of the comment yields nothing.
RightComment(w, c, f, t, code) ==
  IF ~CursorTable[c].file THEN <<>>
  ELSE IF comments = {} THEN <<Line(w, t, code)>>
  ELSE IF StartLineIndex(EndLine(c, f)) = {} THEN <<Line(w, t, code)>>
  ELSE IF Cardinality(StartLineIndex(EndLine(c, f))) # 1 THEN Raise(w)
  ELSE LET comment == py_comment_from_token(
                        CHOOSE x \in StartLineIndex(EndLine(c, f)) : TRUE)
       IN  IF comment = <<>> THEN <<Line(w, t, code)>>
           ELSE <<Line(w, t, code \o "  " \o comment[1])>>

right_comment(w, t, code) == RightComment(w, wr[w].cursor, 0, t, code)

\* add_all_cursor without the test of decl._exported: the variant C9 tells apart
AddAllAlways(g, w) == add_all_cursor(g, w)

\* the statement "if decl._exported: self.add_all_cursor(decl)"
AddAllIfExported(g, w) == IF wr[w].exported THEN add_all_cursor(g, w) ELSE g

\* CTypesCodeGenerator.enum_constant_code, for each constant
EnumMembers(w, consts, ind) ==
  [i \in DOMAIN consts |->
     Line(w, "member", Indent(ind) \o consts[i].spelling \o " = " \o ToString(consts[i].enum_value))]

\* the module-level aliases of the constants in enum_code
EnumAliases(w, consts, enum_name) ==
  [i \in DOMAIN consts |->
     Line(w, "member_alias", consts[i].spelling \o " = " \o enum_name \o "." \o consts[i].spelling)]

\* CTypesCodeGenerator.enum_code
enum_code(g, w) ==
  LET values == CursorTable[wr[w].cursor].consts
      enum_name == Alias(wr[w])
  IN  end_pad(
        Yield(pad_to(AddAllIfExported(set_import(g, "enum", "IntFlag"), w), w, 2),
              <<Line(w, "class", "class " \o enum_name \o "(IntFlag):")>>
                \o (IF Len(values) = 0
                    THEN <<Line(w, "pass", Indent(1) \o "pass")>>
                    ELSE EnumMembers(w, values, 1) \o Blanks(w, 2))
                \o EnumAliases(w, values, enum_name)),
        w, 1)

\* CTypesCodeGenerator.field_code, for field f of the struct/union cursor c
field_code(g, w, c, f, ind) ==
  LET decl == CursorTable[c].fields[f]
      w_type == w_type_for_clang_type(decl.type, decl.brackets)
  IN  Yield(check_dependency(load_imports(g, w_type), w_type, [c |-> c, f |-> f]),
            AboveComment(w, c, f, ind)
              \o RightComment(w, c, f, "field",
                   Indent(ind) \o "(\"" \o decl.spelling \o "\", " \o TypeAlias(w_type) \o "),"))

\* _struct_union_code without the blank line between fields: the variant C8
\* tells apart
FieldGapNone(g, w, index) == g

\* the blank line between fields in _struct_union_code
FieldGap(g, w, index) == IF index > 0 THEN Yield(g, Blanks(w, 1)) ELSE g

\* the loop over the fields in _struct_union_code
RECURSIVE FieldsCode(_, _, _, _, _)
FieldsCode(g, w, c, f, ind) ==
  IF f > Len(CursorTable[c].fields) THEN g
  ELSE FieldsCode(field_code(FieldGap(g, w, f - 1), w, c, f, ind), w, c, f + 1, ind)

\* _struct_union_code, decl_type FORWARD_ONLY
ForwardOnlyCode(g, w, n, ctypes_type_name) ==
  Yield(set_import(
          Yield(g, <<Line(w, "comment",
                          IF n > 0
                          THEN "# Forward declaration. Definition of _fields_ will appear later."
                          ELSE "# Forward declaration")>>),
          "ctypes", ctypes_type_name),
        <<Line(w, "class", "class " \o Alias(wr[w]) \o "(" \o ctypes_type_name \o "):"),
          Line(w, "pass", Indent(1) \o "pass")>>)

\* _struct_union_code, what comes before the fields when decl_type is
\* DEFINITION_ONLY or FULL
DefinitionHead(g, w, n, ctypes_type_name) ==
  IF wr[w].decl_type = "DEFINITION_ONLY"
  THEN Yield(g, IF n > 0
                THEN <<Line(w, "fields_open", Alias(wr[w]) \o "._fields_ = (")>>
                ELSE <<>>)
  ELSE Yield(set_import(g, "ctypes", ctypes_type_name),
             <<Line(w, "class", "class " \o Alias(wr[w]) \o "(" \o ctypes_type_name \o "):"),
               IF n > 0
               THEN Line(w, "fields_open", Indent(1) \o "_fields_ = (")
               ELSE Line(w, "pass", Indent(1) \o "pass")>>)

\* _struct_union_code, the fields and the closing line
DefinitionCode(g, w, n, ctypes_type_name) ==
  Yield(FieldsCode(DefinitionHead(g, w, n, ctypes_type_name), w, wr[w].cursor, 1, 2),
        IF n > 0 THEN <<Line(w, "fields_close", Indent(1) \o ")")>> ELSE <<>>)

\* _struct_union_code, the branch on decl_type
StructUnionBody(g, w, n, ctypes_type_name) ==
  IF wr[w].decl_type = "FORWARD_ONLY"
  THEN ForwardOnlyCode(g, w, n, ctypes_type_name)
  ELSE DefinitionCode(g, w, n, ctypes_type_name)

\* CTypesCodeGenerator._struct_union_code
struct_union_code(g, w, ctypes_type_name) ==
  end_pad(
    AddAllIfExported(
      StructUnionBody(pad_to(g, w, 2), w, Len(CursorTable[wr[w].cursor].fields),
                      ctypes_type_name),
      w),
    w, 2)

\* typedef_code, past the no-op test
TypedefBody(g, w, name, base_type) ==
  Yield(AddAllIfExported(
          check_dependency(load_imports(g, base_type), base_type,
                           [c |-> wr[w].cursor, f |-> 0]),
          w),
        above_comment(w, wr[w].cursor)
          \o right_comment(w, "typedef", name \o ": type = " \o TypeStr(base_type)))

\* the no-op test of typedef_code: str(name) == str(base_type)
IsNoopTypedef(decl) ==
  Alias(decl) = TypeStr(w_type_for_clang_type(CursorTable[decl.cursor].utype,
                                              CursorTable[decl.cursor].brackets))

\* typedef_code without the no-op test: the variant C6 tells apart
TypedefCodeAlways(g, w) ==
  TypedefBody(g, w, Alias(wr[w]),
              w_type_for_clang_type(CursorTable[wr[w].cursor].utype,
                                    CursorTable[wr[w].cursor].brackets))

\* CTypesCodeGenerator.typedef_code
typedef_code(g, w) ==
  IF IsNoopTypedef(wr[w]) THEN g
  ELSE TypedefBody(g, w, Alias(wr[w]),
                   w_type_for_clang_type(CursorTable[wr[w].cursor].utype,
                                         CursorTable[wr[w].cursor].brackets))

\* macro_code, past the tests on the tokens
MacroBody(g, w, macro_name, rhs) ==
  end_pad(
    Yield(pad_to(add_all_cursor(g, w), w, 0),
          above_comment(w, wr[w].cursor)
            \o right_comment(w, "macro", macro_name \o " = " \o rhs)),
    w, 0)

\* CTypesCodeGenerator.macro_code
macro_code(g, w) ==
  LET cursor == CursorTable[wr[w].cursor]
      tokens == Tail(cursor.tokens)
  IN  IF Len(tokens) < 1 \/ Len(tokens) > 2 THEN g
      ELSE IF Len(tokens) = 2 /\ tokens[2] # "-" THEN g
      ELSE MacroBody(g, w, cursor.spelling,
                     IF Len(tokens) = 2 THEN tokens[1] \o tokens[2] ELSE tokens[1])

\* CTypesCodeGenerator.opaque_code
opaque_code(g, w) ==
  end_pad(
    Yield(set_import(Yield(pad_to(g, w, 2), <<Line(w, "comment", "# Opaque type")>>),
                     "ctypes", "Structure"),
          <<Line(w, "class", "class " \o Alias(wr[w]) \o "(Structure):"),
            Line(w, "pass", "    pass")>>),
    w, 2)

\* the loop over the children of a function declaration in function_code:
\* the mapped result type, the parameters, and whether a child of another kind
\* was met (assert False)
RECURSIVE FunctionChildren(_, _)
FunctionChildren(children, acc) ==
  IF children = <<>> THEN acc
  ELSE IF Head(children).kind = "TYPE_REF"
  THEN FunctionChildren(Tail(children),
                        [acc EXCEPT !.result = w_type_for_clang_type(Head(children).type, "")])
  ELSE IF Head(children).kind = "PARM_DECL"
  THEN FunctionChildren(Tail(children), [acc EXCEPT !.parameters = Append(@, Head(children))])
  ELSE [acc EXCEPT !.bad = TRUE]

\* the loop over the parameters in function_code
RECURSIVE ParametersCode(_, _, _)
ParametersCode(g, w, parameters) ==
  IF parameters = <<>> THEN g
  ELSE ParametersCode(
         Yield(load_imports(g, w_type_for_clang_type(Head(parameters).type, "")),
               <<Line(w, "argtype",
                      Indent(1) \o TypeAlias(w_type_for_clang_type(Head(parameters).type, ""))
                        \o ",")>>),
         w, Tail(parameters))

\* function_code, the argtypes assignment
ArgTypesCode(g, w, parameters) ==
  IF Len(parameters) = 0
  THEN Yield(g, <<Line(w, "argtypes", Alias(wr[w]) \o ".argtypes = []")>>)
  ELSE Yield(ParametersCode(
               Yield(g, <<Line(w, "argtypes", Alias(wr[w]) \o ".argtypes = [")>>),
               w, parameters),
             <<Line(w, "argtypes_close", "]")>>)

\* function_code, past its assertions
FunctionBody(g, w, ch) ==
  end_pad(
    ArgTypesCode(
      Yield(pad_to(g, w, 1),
            above_comment(w, wr[w].cursor)
              \o right_comment(w, "function",
                               Alias(wr[w]) \o " = " \o library[1] \o "." \o Name(wr[w]))
              \o <<Line(w, "restype", Alias(wr[w]) \o ".restype = " \o TypeAlias(ch.result))>>),
      w, ch.parameters),
    w, 1)

\* function_code without "assert self.library is not None", passing over the
\* binding when there is no library
FunctionCodeUnlessNoLibrary(g, w) ==
  LET ch == FunctionChildren(CursorTable[wr[w].cursor].children,
                             [result |-> WT("VoidType", TVoid, "", ""),
                              parameters |-> <<>>, bad |-> FALSE])
  IN  IF ch.bad THEN [g EXCEPT !.err = "AssertionError"]
      ELSE IF library = NoLibrary THEN g
      ELSE FunctionBody(g, w, ch)

\* CTypesCodeGenerator.function_code
function_code(g, w) ==
  LET ch == FunctionChildren(CursorTable[wr[w].cursor].children,
                             [result |-> WT("VoidType", TVoid, "", ""),
                              parameters |-> <<>>, bad |-> FALSE])
  IN  IF library = NoLibrary \/ ch.bad THEN [g EXCEPT !.err = "AssertionError"]
      ELSE FunctionBody(g, w, ch)

\* CTypesCodeGenerator.coder_for_cursor_kind, applied
Coder(g, w) ==
  CASE wr[w].kind = "ENUM_DECL" -> enum_code(g, w)
    [] wr[w].kind = "FUNCTION_DECL" -> function_code(g, w)
    [] wr[w].kind = "MACRO_DEFINITION" -> macro_code(g, w)
    [] wr[w].kind = "OPAQUE" -> opaque_code(g, w)
    [] wr[w].kind = "STRUCT_DECL" -> struct_union_code(g, w, "Structure")
    [] wr[w].kind = "TYPEDEF_DECL" -> typedef_code(g, w)
    [] wr[w].kind = "UNION_DECL" -> struct_union_code(g, w, "Union")
    [] OTHER -> [g EXCEPT !.err = "KeyError"]

\* _write_declaration without its loop over the predecessors: the variant C1
\* tells apart
PredecessorsNone(w) == <<>>

\* the wrappers a loop over decl.predecessors visits, in its order
Predecessors(w) == SetToSeq(wr[w].preds \ {w}, setOrder = "desc")

\* _write_declaration, after its loop over the predecessors: one more coder call
CodeDeclaration(g, w) ==
  IF g.err # "" THEN g ELSE Coder([g EXCEPT !.e = @ + 1], w)

\* CTypesCodeGenerator._write_declaration.  The recursion has no guard of its own:
\* depth counts the calls that may still nest, and a chain of predecessors longer
\* than the wrappers there are is a cycle, which ends in Python's RecursionError
RECURSIVE write_declaration(_, _, _)
RECURSIVE WritePredecessors(_, _, _)
write_declaration(g, w, depth) ==
  IF g.err # "" THEN g
  ELSE IF depth = 0 THEN [g EXCEPT !.err = "RecursionError"]
  ELSE CodeDeclaration(WritePredecessors(g, Predecessors(w), depth - 1), w)

WritePredecessors(g, deps, depth) ==
  IF deps = <<>> THEN g
  ELSE WritePredecessors(write_declaration(g, Head(deps), depth), Tail(deps), depth)

\* BaseDeclGroup.included: the top-level declarations marked included, in order
Included == SelectSeq(hdr, LAMBDA c : wr[c].included)

\* the loop over module_builder.included() in write_module
RECURSIVE WriteAll(_, _)
WriteAll(g, decls) ==
  IF decls = <<>> THEN g
  ELSE WriteAll(write_declaration(g, Head(decls), Len(wr) + 1), Tail(decls))

\* the lines of one module in import_code
ImportLines(imp) ==
  LET ranks == SetToSeq({Rank(n) : n \in imp.names}, FALSE)
      sorted == [i \in DOMAIN ranks |-> NameOrder[ranks[i]]]
  IN  IF Cardinality(imp.names) < 5
      THEN <<Line(0, "import", "from " \o imp.module \o " import " \o JoinStr(sorted, ", "))>>
      ELSE <<Line(0, "import", "from " \o imp.module \o " import (")>>
             \o [i \in DOMAIN sorted |-> Line(0, "import_item", "    " \o sorted[i] \o ",")]
             \o <<Line(0, "import_close", ")")>>

RECURSIVE Flatten(_)
Flatten(ss) == IF ss = <<>> THEN <<>> ELSE ss[1] \o Flatten(Tail(ss))

\* CTypesCodeGenerator.import_code, with the fresh Spacer write_module hands it
import_code(imports) ==
  IF imports = <<>> THEN <<>>
  ELSE Flatten([i \in DOMAIN imports |-> ImportLines(imports[i])]) \o Blanks(0, 1)

\* the text of an entry of the __all__ list
AllItem(alias) == "    \"" \o alias \o "\","

\* CTypesCodeGenerator.all_section_code, with write_module's body_spacer
all_section_code(g) ==
  IF g.all = {} THEN <<>>
  ELSE LET ws == SetToSeq(g.all, FALSE)
           all_items == SortNames([i \in DOMAIN ws |-> Alias(wr[ws[i]])])
       IN  Blanks(0, IF 1 <= g.pbl THEN 0 ELSE 1 - g.pbl)
             \o <<Line(0, "all_open", "__all__ = [")>>
             \o [i \in DOMAIN all_items |-> Line(0, "all_item", AllItem(all_items[i]))]
             \o <<Line(0, "all_close", "]")>>

\* the warnings write_module prints after the file: per unexposed dependee its
\* spelling, its kind and the sorted spellings of the declarations that name it
short_name_for_cursor_kind(kind) == IF kind = "STRUCT_DECL" THEN "struct" ELSE kind

DependerSpelling(d) ==
  IF d.f = 0 THEN CursorTable[d.c].spelling ELSE CursorTable[d.c].fields[d.f].spelling

Warnings(g) ==
  [i \in DOMAIN g.unexposed |->
     [dependee |-> CursorTable[g.unexposed[i].dependee].spelling,
      kind |-> short_name_for_cursor_kind(CursorTable[g.unexposed[i].dependee].kind),
      declarations |-> SortNames([j \in DOMAIN g.unexposed[i].dependers |->
                                    DependerSpelling(g.unexposed[i].dependers[j])])]]

\* sel: the wrappers as the write_module call read them
NoOutput == [status |-> "none", imports |-> <<>>, body |-> <<>>, exports |-> <<>>,
             warnings |-> <<>>, sel |-> <<>>]

\* write_module, before the loop over the included declarations
LoadLibrary(g) ==
  IF library # NoLibrary
  THEN Yield(set_import(g, "ctypes", "cdll"),
             <<Line(0, "library",
                    library[1] \o " = cdll.LoadLibrary(\"" \o library[2] \o "\")")>>)
  ELSE g

\* write_module, "if prev_line == "" and body_lines[0] == "": del body_lines[0]"
BodyLines(imports, lines) ==
  IF imports # <<>> /\ lines[1].s = "" THEN Tail(lines) ELSE lines

\* write_module, after the loop: what is printed, or the exception it ends with
Written(g) ==
  IF g.err # "" THEN [NoOutput EXCEPT !.status = g.err, !.sel = wr]
  ELSE IF g.imports # <<>> /\ g.lines = <<>>
  THEN [NoOutput EXCEPT !.status = "IndexError", !.sel = wr]
  ELSE [status |-> "ok", imports |-> import_code(g.imports),
        body |-> BodyLines(import_code(g.imports), g.lines),
        exports |-> all_section_code(g), warnings |-> Warnings(g), sel |-> wr]

\* the accumulators the generator keeps after write_module
Kept(g) == [imports |-> g.imports, all |-> g.all, unexposed |-> g.unexposed]

Generated(g) == [gen |-> Kept(g), out |-> Written(g)]

\* write_module past its clear() calls, over the accumulators acc
ModuleFrom(acc) == Generated(WriteAll(LoadLibrary(EmptyGen(acc)), Included))

\* CTypesCodeGenerator.write_module
WriteModule ==
  /\ writes < MaxWrites
  /\ LET r == ModuleFrom(ClearAccumulators(gen))
     IN  gen' = r.gen /\ out' = r.out
  /\ prev' = out
  /\ writes' = writes + 1
  /\ UNCHANGED <<hdr, library, setOrder, wr, calls, comments, tu, yielded, query,
               clang_type, mapped>>

(***************************************************************************)
(* The translation-unit walk (wrapid/decl.py): TranslationUnitIterable and *)
(* the singleton queries of the root group.                                *)
(*                                                                         *)
(* A child of the translation unit's cursor is a record: its kind and      *)
(* spelling, whether it is a definition, whether it lies in the main file, *)
(* the first line (location.line) and the last line (extent.end.line) of   *)
(* its extent, and its place id among the children.                        *)
(***************************************************************************)
\* lines of the main file
MaxLine == 4

Extents == {x \in (1..MaxLine) \X (1..MaxLine) : x[1] <= x[2]}

\* the declarations a main file of the model holds
DeclShapes ==
  { [kind |-> "STRUCT_DECL", spelling |-> "A", def |-> TRUE],
    [kind |-> "STRUCT_DECL", spelling |-> "A", def |-> FALSE],
    [kind |-> "FUNCTION_DECL", spelling |-> "f", def |-> FALSE] }

MacroNames == {"M", "N"}

Child(shape, main, x) ==
  [kind |-> shape.kind, spelling |-> shape.spelling, def |-> shape.def, main |-> main,
   line |-> x[1], end |-> x[2], id |-> 0]

MainDecls == {Child(k, TRUE, x) : k \in DeclShapes, x \in Extents}

\* a macro definition takes one line, or two with a continuation
MainMacros ==
  {Child([kind |-> "MACRO_DEFINITION", spelling |-> n, def |-> TRUE], TRUE, x) :
     n \in MacroNames, x \in {y \in Extents : y[2] <= y[1] + 1}}

\* a declaration of an included header
OtherDecl == Child([kind |-> "STRUCT_DECL", spelling |-> "B", def |-> TRUE], FALSE, <<1, 1>>)

\* up to two cursors of S, one after the other in the file
InFileOrder(S) ==
  {<<>>} \cup {<<c>> : c \in S} \cup {x \in S \X S : x[1].end < x[2].line}

\* a macro lies above a declaration, below it, or inside its extent
WellPlaced(m, d) ==
  m.end < d.line \/ d.end < m.line \/ (d.line < m.line /\ m.end < d.end)

Numbered(cs) == [i \in DOMAIN cs |-> [cs[i] EXCEPT !.id = i]]

\* the translation units of the model: as libclang hands them over, the macro
\* definitions first, then the declarations of included headers, then those of the
\* main file
Layouts ==
  {x \in InFileOrder(MainMacros) \X {<<>>, <<OtherDecl>>} \X InFileOrder(MainDecls) :
     \A i \in DOMAIN x[1] : \A j \in DOMAIN x[3] : WellPlaced(x[1][i], x[3][j])}

TranslationUnits == {Numbered(x[1] \o x[2] \o x[3]) : x \in Layouts}

\* children of a translation unit's cursor
MaxChildren == 4

\* the cursors of any arrangement: macro definitions, macro instantiations and
\* declarations, of the main file and of other files
AnyCursors ==
  {Child([kind |-> "MACRO_DEFINITION", spelling |-> "M", def |-> TRUE], TRUE, <<l, l>>) :
     l \in 1..2}
  \cup {Child([kind |-> "MACRO_DEFINITION", spelling |-> "N", def |-> TRUE], FALSE, <<1, 1>>),
        Child([kind |-> "MACRO_INSTANTIATION", spelling |-> "M", def |-> FALSE], TRUE, <<1, 1>>),
        OtherDecl}
  \cup {Child([kind |-> "STRUCT_DECL", spelling |-> "A", def |-> TRUE], TRUE, x) :
          x \in {<<1, 1>>, <<1, 2>>, <<2, 2>>}}

\* the translation units whose children arrive in any order
Arrangements ==
  UNION {{Numbered(cs) : cs \in [1..n -> AnyCursors]} : n \in 1..MaxChildren}

(***************************************************************************)
(* TranslationUnitIterable.__iter__: a macro definition of the main file   *)
(* waits in a deque; before any other cursor of the main file (macro       *)
(* instantiations apart) the macros at the head of the deque that start on *)
(* or above the cursor's last line are yielded; cursors of other files are *)
(* yielded as they come; the macros still waiting are yielded at the end.  *)
(***************************************************************************)
RECURSIVE DrainedByStartLine(_, _)
RECURSIVE Drained(_, _)

\* the macros strictly above the cursor's first line
DrainedByStartLine(macro_deque, cursor) ==
  IF macro_deque # <<>> /\ Head(macro_deque).line < cursor.line
  THEN <<Head(macro_deque)>> \o DrainedByStartLine(Tail(macro_deque), cursor)
  ELSE <<>>

Drained(macro_deque, cursor) ==
  IF macro_deque # <<>> /\ Head(macro_deque).line <= cursor.end
  THEN <<Head(macro_deque)>> \o Drained(Tail(macro_deque), cursor)
  ELSE <<>>

RECURSIVE IterateWithoutLastDrain(_, _, _)
RECURSIVE Iterate(_, _, _)

\* __iter__ without its loop "Drain remaining macros"
IterateWithoutLastDrain(children, macro_deque, acc) ==
  IF children = <<>> THEN acc
  ELSE LET cursor == Head(children)
           n == Len(Drained(macro_deque, cursor))
       IN  IF ~cursor.main \/ cursor.kind = "MACRO_INSTANTIATION"
           THEN IterateWithoutLastDrain(Tail(children), macro_deque, Append(acc, cursor))
           ELSE IF cursor.kind = "MACRO_DEFINITION"
           THEN IterateWithoutLastDrain(Tail(children), Append(macro_deque, cursor), acc)
           ELSE IterateWithoutLastDrain(
                  Tail(children), SubSeq(macro_deque, n + 1, Len(macro_deque)),
                  Append(acc \o Drained(macro_deque, cursor), cursor))

Iterate(children, macro_deque, acc) ==
  IF children = <<>> THEN acc \o macro_deque
  ELSE LET cursor == Head(children)
           n == Len(Drained(macro_deque, cursor))
       IN  IF ~cursor.main
           THEN Iterate(Tail(children), macro_deque, Append(acc, cursor))
           ELSE IF cursor.kind = "MACRO_INSTANTIATION"
           THEN Iterate(Tail(children), macro_deque, Append(acc, cursor))
           ELSE IF cursor.kind = "MACRO_DEFINITION"
           THEN Iterate(Tail(children), Append(macro_deque, cursor), acc)
           ELSE Iterate(Tail(children), SubSeq(macro_deque, n + 1, Len(macro_deque)),
                        Append(acc \o Drained(macro_deque, cursor), cursor))

TranslationUnitIterable(children) == Iterate(children, <<>>, <<>>)

(***************************************************************************)
(* BaseDeclGroup: a group iterates its cursors through its predicate       *)
(* (SelectSeq); the root group's cursors are the translation unit's        *)
(* iteration.                                                              *)
(***************************************************************************)

NoDecl == [status |-> "none", decl |-> 0]

Found(c) == [status |-> "ok", decl |-> c.id]

Raised(msg) == [status |-> "RuntimeError", decl |-> 0, msg |-> msg]

\* the first match, however many there are
SelectFirstDeclaration(matches) ==
  IF matches = <<>> THEN Raised("no matches") ELSE Found(matches[1])

\* BaseDeclGroup._select_single_declaration, on the sequence filter() gives it
select_single_declaration(matches) ==
  IF Len(matches) >= 2 THEN Raised("multiple matches")
  ELSE IF matches = <<>> THEN Raised("no matches")
  ELSE Found(matches[Len(matches)])

IsFunction(c) == c.kind = "FUNCTION_DECL"
IsMacro(c) == c.kind = "MACRO_DEFINITION"
IsStruct(c) == c.kind = "STRUCT_DECL" /\ c.def
IsTypedef(c) == c.kind = "TYPEDEF_DECL"

functions(cs) == SelectSeq(cs, IsFunction)
macros(cs) == SelectSeq(cs, IsMacro)
structs(cs) == SelectSeq(cs, IsStruct)
typedefs(cs) == SelectSeq(cs, IsTypedef)

function(cs, name) ==
  select_single_declaration(SelectSeq(functions(cs), LAMBDA c : c.spelling = name))
macro(cs, name) ==
  select_single_declaration(SelectSeq(macros(cs), LAMBDA c : c.spelling = name))
struct(cs, name) ==
  select_single_declaration(SelectSeq(structs(cs), LAMBDA c : c.spelling = name /\ c.def))
typedef(cs, name) ==
  select_single_declaration(SelectSeq(typedefs(cs), LAMBDA c : c.spelling = name))

QueryKinds == {"function", "macro", "struct", "typedef"}
QueryNames == {"A", "f", "M", "N"}

Singleton(kind, cs, name) ==
  CASE kind = "function" -> function(cs, name)
    [] kind = "macro" -> macro(cs, name)
    [] kind = "struct" -> struct(cs, name)
    [] kind = "typedef" -> typedef(cs, name)

NoQuery == [kind |-> "none", name |-> "", result |-> NoDecl]

\* one pass of a for loop over the TranslationUnitIterable
IterateTranslationUnit ==
  /\ yielded = <<>>
  /\ tu # <<>>
  /\ yielded' = TranslationUnitIterable(tu)
  /\ UNCHANGED <<tu, query>>
  /\ UNCHANGED genvars
  /\ UNCHANGED <<clang_type, mapped>>

\* module_builder.function(name), .macro(name), .struct(name), .typedef(name)
SelectSingle ==
  /\ \E kind \in QueryKinds, name \in QueryNames :
       query' = [kind |-> kind, name |-> name,
                 result |-> Singleton(kind, TranslationUnitIterable(tu), name)]
  /\ UNCHANGED <<tu, yielded>>
  /\ UNCHANGED genvars
  /\ UNCHANGED <<clang_type, mapped>>

(***************************************************************************)
(* The runs: a header is parsed, a generator built, and then any selection *)
(* calls and write_module calls, within the bounds.                        *)
(***************************************************************************)
Init ==
  /\ hdr \in Headers
  /\ library \in Libraries
  /\ library # NoLibrary => C.F \in Range(hdr)
  /\ setOrder \in {"asc", "desc"}
  /\ wr = [c \in CursorIds |-> IndexGet(c)]
  /\ calls = 0
  /\ writes = 0
  /\ gen = NewGenerator
  /\ out = NoOutput
  /\ prev = NoOutput
  /\ comments = {}
  /\ tu = <<>>
  /\ yielded = <<>>
  /\ query = NoQuery
  /\ clang_type = NoType
  /\ mapped = NotMapped

Next ==
  \/ \E w \in TopLevel, export \in BOOLEAN, before \in TopLevel \cup {0} :
       Include(w, export, before)
  \/ \E kind \in GroupKinds : IncludeGroup(kind)
  \/ \E w \in StructsUnions, before \in TopLevel, export \in BOOLEAN :
       IncludeForward(w, before, export)
  \/ \E f \in OpaqueFields, before \in TopLevel, export \in BOOLEAN :
       IncludeOpaqueType(f[1], f[2], before, export)
  \/ \E w \in TopLevel, name \in RenameTo : Rename(w, name)
  \/ WriteModule

Spec == Init /\ [][Next]_vars

(***************************************************************************)
(* The walks: a translation unit is parsed, and then it is iterated and    *)
(* queried for single declarations.                                        *)
(***************************************************************************)
InitTU ==
  /\ tu \in TranslationUnits
  /\ yielded = <<>>
  /\ query = NoQuery
  /\ clang_type = NoType
  /\ mapped = NotMapped
  /\ hdr = <<>>
  /\ library = NoLibrary
  /\ setOrder = "asc"
  /\ wr = <<>>
  /\ calls = 0
  /\ writes = 0
  /\ gen = NewGenerator
  /\ out = NoOutput
  /\ prev = NoOutput
  /\ comments = {}

NextTU ==
  \/ IterateTranslationUnit
  \/ SelectSingle

SpecTU == InitTU /\ [][NextTU]_vars

(***************************************************************************)
(* The commented headers: a header of macros or of a typedef, with comment *)
(* tokens above and on the line of its first declaration (line 10).        *)
(***************************************************************************)
MacroCursors == {c \in CursorIds : CursorTable[c].kind = "MACRO_DEFINITION"}

CoderHeaders ==
  {<<m>> : m \in MacroCursors \cup {C.IntAlias}}
    \cup {<<m, C.DCTSIZE>> : m \in MacroCursors \ {C.DCTSIZE}}

\* comment tokens of one header
MaxComments == 2

Comment(start, end, alone, text) ==
  [start |-> start, end |-> end, alone |-> alone, text |-> text]

CommentTokens ==
  { Comment(9, 9, TRUE, <<>>), Comment(9, 9, TRUE, <<"note">>),
    Comment(8, 9, TRUE, <<"one", "two">>), Comment(9, 9, FALSE, <<"other">>),
    Comment(10, 10, FALSE, <<>>), Comment(10, 10, FALSE, <<"note">>),
    Comment(10, 10, FALSE, <<"more">>) }

\* a comment that shares its start line with another token is not alone on it
CommentSets ==
  {ts \in SUBSET CommentTokens :
     /\ Cardinality(ts) <= MaxComments
     /\ \A t \in ts : \A u \in ts : (t # u /\ t.start = u.start) => ~t.alone}

InitCoders ==
  /\ hdr \in CoderHeaders
  /\ comments \in CommentSets
  /\ library = NoLibrary
  /\ setOrder = "asc"
  /\ wr = [c \in CursorIds |-> IndexGet(c)]
  /\ calls = 0
  /\ writes = 0
  /\ gen = NewGenerator
  /\ out = NoOutput
  /\ prev = NoOutput
  /\ tu = <<>>
  /\ yielded = <<>>
  /\ query = NoQuery
  /\ clang_type = NoType
  /\ mapped = NotMapped

NextCoders ==
  \/ \E w \in TopLevel, export \in BOOLEAN : Include(w, export, 0)
  \/ WriteModule

SpecCoders == InitCoders /\ [][NextCoders]_vars

\* the walks over translation units whose children arrive in any order
InitAny ==
  /\ tu \in Arrangements
  /\ yielded = <<>>
  /\ query = NoQuery
  /\ clang_type = NoType
  /\ mapped = NotMapped
  /\ hdr = <<>>
  /\ library = NoLibrary
  /\ setOrder = "asc"
  /\ wr = <<>>
  /\ calls = 0
  /\ writes = 0
  /\ gen = NewGenerator
  /\ out = NoOutput
  /\ prev = NoOutput
  /\ comments = {}

NextAny == IterateTranslationUnit

SpecAny == InitAny /\ [][NextAny]_vars

(***************************************************************************)
(* The type mapper on its own: a clang type is handed to                   *)
(* w_type_for_clang_type, and the mapped type is rendered and asked for    *)
(* its imports and its dependencies.                                       *)
(***************************************************************************)
\* how deep a type is nested
MaxDepth == 2

\* the types without a component
LeafTypes ==
  {[k |-> p] : p \in DOMAIN primitive_ctype_for_clang_type}
    \cup {TVoid, DeclType(C.A), DeclType(C.IntAlias), TElaborated(C.A), TElaborated(C.Level),
          TUnknown("INT128", "__int128")}

\* the parameter lists of the function prototypes
ArgLists ==
  {<<>>, <<TInt>>, <<TElaborated(C.A)>>, <<TPointer(TChar)>>,
   <<TInt, TPointer(TElaborated(C.B))>>}

\* the types nested to depth d at most: no array of functions or of void, and no
\* function that returns an array or a function
RECURSIVE TypeTrees(_)
TypeTrees(d) ==
  IF d = 0 THEN LeafTypes
  ELSE LET S == TypeTrees(d - 1)
       IN  S \cup {TPointer(t) : t \in S}
             \cup {TArray(t, 2) : t \in {x \in S : x.k \notin {"FUNCTIONPROTO", "VOID"}}}
             \cup {TProto(r, a) : r \in {x \in S : x.k \notin {"FUNCTIONPROTO", "CONSTANTARRAY"}},
                                  a \in ArgLists}

MapType ==
  /\ clang_type # NoType
  /\ mapped = NotMapped
  /\ mapped' = Mapped(w_type_for_clang_type(clang_type, ""))
  /\ UNCHANGED <<clang_type, tu, yielded, query>>
  /\ UNCHANGED genvars

InitTypes ==
  /\ clang_type \in TypeTrees(MaxDepth)
  /\ mapped = NotMapped
  /\ tu = <<>>
  /\ yielded = <<>>
  /\ query = NoQuery
  /\ hdr = <<>>
  /\ library = NoLibrary
  /\ setOrder = "asc"
  /\ wr = <<>>
  /\ calls = 0
  /\ writes = 0
  /\ gen = NewGenerator
  /\ out = NoOutput
  /\ prev = NoOutput
  /\ comments = {}

NextTypes == MapType

SpecTypes == InitTypes /\ [][NextTypes]_vars

(***************************************************************************)
(* What was written, read back: the body lines of a wrapper, of one coder  *)
(* call, and the entries of the export list.                               *)
(***************************************************************************)
HasLines(w) == \E i \in DOMAIN out.body : out.body[i].w = w

\* the coder calls that yielded lines for wrapper w
Emissions(w) == {out.body[i].e : i \in {j \in DOMAIN out.body : out.body[j].w = w}}

\* the lines one coder call yielded
Block(e) == SelectSeq(out.body, LAMBDA l : l.e = e)

RECURSIVE TrimLeft(_)
TrimLeft(ls) == IF ls # <<>> /\ ls[1].s = "" THEN TrimLeft(Tail(ls)) ELSE ls

RECURSIVE TrimRight(_)
TrimRight(ls) ==
  IF ls # <<>> /\ ls[Len(ls)].s = "" THEN TrimRight(SubSeq(ls, 1, Len(ls) - 1)) ELSE ls

\* the lines of one coder call without the blank lines that pad it
Core(e) == TrimRight(TrimLeft(Block(e)))

Texts(ls) == [i \in DOMAIN ls |-> ls[i].s]
Tags(ls) == [i \in DOMAIN ls |-> IF ls[i].s = "" THEN "blank" ELSE ls[i].t]

\* the entries of the written __all__ list
ExportItems == Texts(SelectSeq(out.exports, LAMBDA l : l.t = "all_item"))

Listed(alias) == \E i \in DOMAIN ExportItems : ExportItems[i] = AllItem(alias)

TimesListed(alias) == Cardinality({i \in DOMAIN ExportItems : ExportItems[i] = AllItem(alias)})

(***************************************************************************)
(* C1.  In the body write_module produces, for every emitted declaration D *)
(* and every P in D.predecessors other than D, the lines generated for P   *)
(* come before the lines generated for D: each coder call for D is         *)
(* preceded by an earlier coder call for P.  A cyclic predecessor graph    *)
(* ends the call with an exception and writes nothing.                     *)
(***************************************************************************)
PredecessorsEmittedFirst ==
  out.status = "ok" =>
    \A j \in DOMAIN out.body :
      out.body[j].w # 0 =>
        \A P \in out.sel[out.body[j].w].preds \ {out.body[j].w} :
          HasLines(P) =>
            \E i \in 1..(j - 1) : out.body[i].w = P /\ out.body[i].e < out.body[j].e

\* a written body where the predecessor is no top-level declaration of the header
\* before D: it comes first only because it was registered
PredecessorFirstReached ==
  /\ out.status = "ok"
  /\ \E D \in DOMAIN out.sel : \E P \in out.sel[D].preds \ {D} :
       /\ HasLines(D) /\ HasLines(P)
       /\ \/ P > NumCursors
          \/ \E i, j \in DOMAIN hdr : hdr[i] = D /\ hdr[j] = P /\ i < j

(***************************************************************************)
(* C2.  In one write_module call the code of each declaration is generated *)
(* at most once: no wrapper has body lines of two coder calls.             *)
(***************************************************************************)
EachDeclarationGeneratedOnce ==
  out.status = "ok" => \A w \in DOMAIN out.sel : Cardinality(Emissions(w)) <= 1

(***************************************************************************)
(* C3.  After any sequence of include, include_forward,                    *)
(* include_opaque_type and rename calls, every wrapper (original, forward  *)
(* clone, opaque placeholder) that is exported is included.                *)
(***************************************************************************)
ExportedImpliesIncluded == \A i \in DOMAIN wr : wr[i].exported => wr[i].included

\* an exported clone or placeholder, next to a wrapper included and not exported
ExportedCloneReached ==
  /\ \E i \in DOMAIN wr : i > NumCursors /\ wr[i].exported /\ wr[i].included
  /\ \E j \in DOMAIN wr : wr[j].included /\ ~wr[j].exported

(***************************************************************************)
(* C4.  Every name in the written __all__ list is the alias of a wrapper   *)
(* whose exported flag is true, and the list is omitted when no wrapper is *)
(* exported.                                                               *)
(***************************************************************************)
ExportListNamesOnlyExported ==
  out.status = "ok" =>
    /\ \A i \in DOMAIN ExportItems :
         \E w \in DOMAIN out.sel :
           out.sel[w].exported /\ ExportItems[i] = AllItem(Alias(out.sel[w]))
    /\ (\A w \in DOMAIN out.sel : ~out.sel[w].exported) => out.exports = <<>>

(***************************************************************************)
(* C5.  Every wrapper included with exported = true for which write_module *)
(* emitted body lines has its alias in the written __all__ list.           *)
(***************************************************************************)
ExportedEmittedAreListed ==
  out.status = "ok" =>
    \A w \in DOMAIN out.sel :
      (out.sel[w].included /\ out.sel[w].exported /\ HasLines(w)) =>
        Listed(Alias(out.sel[w]))

(***************************************************************************)
(* C6.  A typedef whose alias equals the rendered text of its mapped       *)
(* underlying type leaves no trace, whatever its flags: no body line, no   *)
(* entry in the export set, no unexposed-dependency record naming it; and  *)
(* when every included wrapper is such a typedef, no import, no record and *)
(* no line at all.                                                         *)
(***************************************************************************)
NoopTypedefs == {w \in DOMAIN out.sel : out.sel[w].kind = "TYPEDEF_DECL" /\ IsNoopTypedef(out.sel[w])}

NoopTypedefLeavesNoTrace ==
  out.status = "ok" =>
    /\ \A w \in NoopTypedefs :
         /\ ~HasLines(w)
         /\ w \notin gen.all
         /\ \A i \in DOMAIN gen.unexposed :
              [c |-> out.sel[w].cursor, f |-> 0] \notin Range(gen.unexposed[i].dependers)
    /\ (library = NoLibrary /\ \A w \in DOMAIN out.sel : out.sel[w].included => w \in NoopTypedefs)
         => /\ gen.imports = <<>> /\ gen.unexposed = <<>>
            /\ out.imports = <<>> /\ out.body = <<>> /\ out.exports = <<>>

\* write_module has run over an included, exported no-op typedef
NoopTypedefWritten ==
  /\ out.status = "ok"
  /\ \E w \in NoopTypedefs : out.sel[w].included /\ out.sel[w].exported

(***************************************************************************)
(* C7.  An included and exported typedef of a primitive whose alias is not *)
(* the primitive's symbol yields one import of the symbol from ctypes,     *)
(* exactly one body line binding the alias to the symbol, and exactly one  *)
(* export entry equal to the alias.                                        *)
(***************************************************************************)
PrimitiveTypedefs ==
  {w \in DOMAIN out.sel :
     /\ out.sel[w].kind = "TYPEDEF_DECL" /\ out.sel[w].included /\ out.sel[w].exported
     /\ w_type_for_clang_type(CursorTable[out.sel[w].cursor].utype, "").cls = "PrimitiveCTypesType"
     /\ ~IsNoopTypedef(out.sel[w])}

PrimitiveTypedefYieldsOneOfEach ==
  out.status = "ok" =>
    \A w \in PrimitiveTypedefs :
      LET symbol == w_type_for_clang_type(CursorTable[out.sel[w].cursor].utype, "").symbol
          binding == Alias(out.sel[w]) \o ": type = " \o symbol
      IN  /\ Cardinality({i \in DOMAIN out.body : out.body[i].s = binding}) = 1
          /\ Cardinality({i \in DOMAIN gen.imports :
                            gen.imports[i].module = "ctypes" /\ symbol \in gen.imports[i].names}) = 1
          /\ TimesListed(Alias(out.sel[w])) = 1

(***************************************************************************)
(* C8.  The shape of what _struct_union_code yields for a struct or union  *)
(* of N fields without comments.                                           *)
(***************************************************************************)
StructUnionWrappers == {w \in DOMAIN out.sel : out.sel[w].kind \in {"STRUCT_DECL", "UNION_DECL"}}

FieldsOf(w) == CursorTable[out.sel[w].cursor].fields

\* the field lines of the struct/union of wrapper w, in declaration order
FieldTexts(w) ==
  [i \in DOMAIN FieldsOf(w) |->
     Indent(2) \o "(\"" \o FieldsOf(w)[i].spelling \o "\", "
       \o TypeAlias(w_type_for_clang_type(FieldsOf(w)[i].type, FieldsOf(w)[i].brackets))
       \o "),"]

FieldLines(ls) == Texts(SelectSeq(ls, LAMBDA l : l.t = "field"))

\* As claimed, in every mode: with N >= 1 a header line, the N field lines in order,
\* N-1 blank lines between them and a closing line; with N = 0 a pass and no
\* parenthesized list.
StructUnionShapeInEveryMode ==
  out.status = "ok" =>
    \A w \in StructUnionWrappers : \A e \in Emissions(w) :
      IF Len(FieldsOf(w)) >= 1
      THEN /\ Core(e) # <<>>
           /\ Core(e)[1].t \in {"class", "fields_open"}
           /\ FieldLines(Core(e)) = FieldTexts(w)
           /\ Len(SelectSeq(Core(e), LAMBDA l : l.s = "")) = Len(FieldsOf(w)) - 1
           /\ Core(e)[Len(Core(e))].t = "fields_close"
      ELSE /\ \E i \in DOMAIN Core(e) : Core(e)[i].t = "pass"
           /\ \A i \in DOMAIN Core(e) : Core(e)[i].t # "fields_open"

\* n field lines with a blank line between each two
FieldRows(n) == [i \in 1..(2 * n - 1) |-> IF i % 2 = 1 THEN "field" ELSE "blank"]

ShapeByMode(mode, n) ==
  CASE mode = "FORWARD_ONLY" -> <<"comment", "class", "pass">>
    [] mode = "FULL" /\ n = 0 -> <<"class", "pass">>
    [] mode = "FULL" /\ n > 0 ->
         <<"class", "fields_open">> \o FieldRows(n) \o <<"fields_close">>
    [] mode = "DEFINITION_ONLY" /\ n = 0 -> <<>>
    [] mode = "DEFINITION_ONLY" /\ n > 0 ->
         <<"fields_open">> \o FieldRows(n) \o <<"fields_close">>

\* C8, as the code has it.  FULL: the class header, then with N >= 1 the
\* "_fields_ = (" line, the N field lines in declaration order with N-1 blank
\* lines between them and the closing line, and with N = 0 a pass.
\* DEFINITION_ONLY: with N >= 1 the "X._fields_ = (" line, the N field lines with
\* N-1 blank lines between them and the closing line, and with N = 0 no line.
\* FORWARD_ONLY: a comment, the class header and a pass, and no field line, for
\* every N.  No mode yields an empty parenthesized list.
StructUnionShapeByMode ==
  out.status = "ok" =>
    \A w \in StructUnionWrappers : \A e \in Emissions(w) :
      /\ Tags(Core(e)) = ShapeByMode(out.sel[w].decl_type, Len(FieldsOf(w)))
      /\ FieldLines(Core(e)) =
           IF out.sel[w].decl_type = "FORWARD_ONLY" THEN <<>> ELSE FieldTexts(w)

\* one written body with a struct in each of the three modes
StructUnionModesWritten ==
  /\ out.status = "ok"
  /\ \A mode \in {"FULL", "FORWARD_ONLY", "DEFINITION_ONLY"} :
       \E w \in StructUnionWrappers : out.sel[w].decl_type = mode /\ HasLines(w)
  /\ \E w \in StructUnionWrappers :
       out.sel[w].decl_type = "FULL" /\ HasLines(w) /\ Len(FieldsOf(w)) >= 2

(***************************************************************************)
(* C9.  For an included enumeration of N constants enum_code yields the    *)
(* class header, one member line "name = value" per constant in            *)
(* declaration order, and then one alias line "name = Enum.name" per       *)
(* constant in the same order; the enumeration is in the export set, and   *)
(* its alias in the written list, exactly when it is exported, the list    *)
(* holds one entry per member of the set, and no member name is listed.    *)
(***************************************************************************)
EnumWrappers == {w \in DOMAIN out.sel : out.sel[w].kind = "ENUM_DECL"}

ConstantsOf(w) == CursorTable[out.sel[w].cursor].consts

EnumTexts(w) ==
  <<"class " \o Alias(out.sel[w]) \o "(IntFlag):">>
    \o (IF Len(ConstantsOf(w)) = 0 THEN <<"    pass">>
        ELSE [i \in DOMAIN ConstantsOf(w) |->
                "    " \o ConstantsOf(w)[i].spelling \o " = "
                  \o ToString(ConstantsOf(w)[i].enum_value)]
             \o <<"", "">>
             \o [i \in DOMAIN ConstantsOf(w) |->
                   ConstantsOf(w)[i].spelling \o " = " \o Alias(out.sel[w]) \o "."
                     \o ConstantsOf(w)[i].spelling])

EnumShapeAndExport ==
  out.status = "ok" =>
    \A w \in EnumWrappers :
      /\ \A e \in Emissions(w) : Texts(Core(e)) = EnumTexts(w)
      /\ (out.sel[w].included /\ out.sel[w].exported)
           => w \in gen.all /\ Listed(Alias(out.sel[w]))
      /\ ~out.sel[w].exported => w \notin gen.all
      /\ Len(ExportItems) = Cardinality(gen.all)
      /\ \A i \in DOMAIN ConstantsOf(w) : ~Listed(ConstantsOf(w)[i].spelling)

\* a written body with an exported enumeration of three constants
EnumWritten ==
  /\ out.status = "ok"
  /\ \E w \in EnumWrappers :
       /\ out.sel[w].included /\ out.sel[w].exported /\ HasLines(w)
       /\ Len(ConstantsOf(w)) = 3

(***************************************************************************)
(* C10.  With structs A and B included, B holding a pointer to A, after    *)
(* A.include_forward(before=B) the body has A's placeholder class before   *)
(* B's lines, and A's "_fields_" assignment after the placeholder and      *)
(* after B's lines, whatever the order of A and B in the header.           *)
(***************************************************************************)
LinesAt(w, t) == {i \in DOMAIN out.body : out.body[i].w = w /\ (t = "" \/ out.body[i].t = t)}

ForwardDefinitionComesLast ==
  out.status = "ok" =>
    \A k \in DOMAIN out.sel :
      (/\ k > NumCursors
       /\ out.sel[k].decl_type = "FORWARD_ONLY"
       /\ out.sel[k].cursor = C.A
       /\ k \in out.sel[C.B].preds
       /\ out.sel[C.A].included /\ out.sel[C.B].included
       /\ out.sel[C.A].decl_type = "DEFINITION_ONLY")
      => /\ LinesAt(k, "class") # {}
         /\ LinesAt(C.A, "fields_open") # {}
         /\ \A p \in LinesAt(k, "class") : \A q \in LinesAt(C.B, "") : p < q
         /\ \A d \in LinesAt(C.A, "fields_open") :
              /\ \A p \in LinesAt(k, "") : p < d
              /\ \A q \in LinesAt(C.B, "") : q < d

(***************************************************************************)
(* C11.  include_forward on a struct/union S leaves a clone of S in mode   *)
(* FORWARD_ONLY and S in mode DEFINITION_ONLY, with the clone registered   *)
(* as a predecessor of S itself, so that whenever S is emitted its         *)
(* placeholder has been emitted earlier.                                   *)
(***************************************************************************)
ForwardClones == {k \in DOMAIN wr : k > NumCursors /\ wr[k].decl_type = "FORWARD_ONLY"}

CloneIsPredecessorOfOriginal ==
  /\ \A k \in ForwardClones :
       /\ wr[wr[k].cursor].decl_type = "DEFINITION_ONLY"
       /\ k \in wr[wr[k].cursor].preds
  /\ out.status = "ok" =>
       \A k \in DOMAIN out.sel :
         (k > NumCursors /\ out.sel[k].decl_type = "FORWARD_ONLY") =>
           \A d \in LinesAt(out.sel[k].cursor, "") :
             \E p \in LinesAt(k, "class") : p < d

(***************************************************************************)
(* C12.  Two write_module calls on one generator with the same selection   *)
(* state and the same input write the same output: the same import lines   *)
(* in the same order, the same body and the same export list (and end the  *)
(* same way).                                                              *)
(***************************************************************************)
WrittenText(o) == [status |-> o.status, imports |-> Texts(o.imports),
                   body |-> Texts(o.body), exports |-> Texts(o.exports)]

SecondWriteIsIdentical ==
  (prev.status # "none" /\ prev.sel = out.sel) => WrittenText(out) = WrittenText(prev)

\* two calls over one selection that wrote imports, a body and an export list
SecondWriteReached ==
  /\ prev.status = "ok" /\ prev.sel = out.sel
  /\ out.imports # <<>> /\ out.body # <<>> /\ out.exports # <<>>
  /\ out.warnings # <<>>

(***************************************************************************)
(* C13.  write_module clears the import set, the export set and the        *)
(* unexposed-dependency map at entry: whatever calls and selection changes *)
(* came before, the imports, the export list and the diagnostics of the    *)
(* last call are those a new generator produces for the selection it read. *)
(***************************************************************************)
Diagnostics(o) == [imports |-> Texts(o.imports), exports |-> Texts(o.exports),
                   warnings |-> o.warnings]

LastWriteAsFromNewGenerator ==
  (out.status # "none" /\ out.sel = wr) =>
    /\ Diagnostics(out) = Diagnostics(ModuleFrom(NewGenerator).out)
    /\ gen = ModuleFrom(NewGenerator).gen

\* a second call whose selection differs from the first call's, the first call
\* having recorded imports, exports and an unexposed dependency
SelectionChangedBetweenWrites ==
  /\ prev.status = "ok" /\ out.status = "ok" /\ out.sel = wr
  /\ prev.sel # out.sel
  /\ prev.imports # <<>> /\ prev.exports # <<>> /\ prev.warnings # <<>>
  /\ Diagnostics(prev) # Diagnostics(out)

(***************************************************************************)
(* C14.  For every declaration X that is not included and is named         *)
(* (directly or through pointers and arrays) by the type of an emitted     *)
(* typedef or of a field of an emitted struct/union, write_module prints   *)
(* exactly one warning, which names X and lists each referencing           *)
(* declaration once; it prints no warning for an included declaration, and *)
(* no other warning.                                                       *)
(***************************************************************************)
FieldReferencers(X) ==
  UNION {{[c |-> out.sel[w].cursor, f |-> f] :
            f \in {h \in DOMAIN FieldsOf(w) :
                     X \in TypeDependencies(
                             w_type_for_clang_type(FieldsOf(w)[h].type, FieldsOf(w)[h].brackets))}} :
         w \in {v \in StructUnionWrappers : LinesAt(v, "field") # {}}}

TypedefReferencers(X) ==
  {[c |-> out.sel[w].cursor, f |-> 0] :
     w \in {v \in DOMAIN out.sel :
              /\ out.sel[v].kind = "TYPEDEF_DECL" /\ LinesAt(v, "typedef") # {}
              /\ X \in TypeDependencies(
                         w_type_for_clang_type(CursorTable[out.sel[v].cursor].utype,
                                               CursorTable[out.sel[v].cursor].brackets))}}

Referencers(X) == FieldReferencers(X) \cup TypedefReferencers(X)

UnexposedRecords(X) == {i \in DOMAIN gen.unexposed : gen.unexposed[i].dependee = X}

OneWarningPerUnexposed ==
  out.status = "ok" =>
    /\ Len(out.warnings) = Len(gen.unexposed)
    /\ \A X \in CursorIds :
         IF ~out.sel[X].included /\ Referencers(X) # {}
         THEN /\ Cardinality(UnexposedRecords(X)) = 1
              /\ \A i \in UnexposedRecords(X) :
                   /\ Range(gen.unexposed[i].dependers) = Referencers(X)
                   /\ Len(gen.unexposed[i].dependers) = Cardinality(Referencers(X))
                   /\ out.warnings[i].dependee = CursorTable[X].spelling
                   /\ Len(out.warnings[i].declarations) = Cardinality(Referencers(X))
         ELSE UnexposedRecords(X) = {}

\* a warning that lists two referencing declarations
SharedUnexposedWarned ==
  /\ out.status = "ok"
  /\ \E i \in DOMAIN out.warnings : Len(out.warnings[i].declarations) = 2


(***************************************************************************)
(* C15: a singleton query returns the matching declaration when exactly    *)
(* one child of the translation unit matches, and raises when none or      *)
(* several match; it never returns one of several matches.                 *)
(***************************************************************************)
KindOfQuery(kind) ==
  CASE kind = "function" -> "FUNCTION_DECL"
    [] kind = "macro" -> "MACRO_DEFINITION"
    [] kind = "struct" -> "STRUCT_DECL"
    [] kind = "typedef" -> "TYPEDEF_DECL"

\* the children a query for name among kind matches
Matches(kind, name) ==
  {i \in DOMAIN tu : /\ tu[i].kind = KindOfQuery(kind)
                     /\ tu[i].spelling = name
                     /\ (kind = "struct" => tu[i].def)}

\* C15: the query returns the only match, or raises when there is none or several
SingletonQueryIsExact ==
  query.kind # "none" =>
    IF Cardinality(Matches(query.kind, query.name)) = 1
    THEN query.result.status = "ok" /\ query.result.decl \in Matches(query.kind, query.name)
    ELSE query.result.status = "RuntimeError"

\* a query that several children match has raised
SeveralMatchesRaised ==
  /\ query.kind # "none"
  /\ Cardinality(Matches(query.kind, query.name)) >= 2
  /\ query.result.status = "RuntimeError"

(***************************************************************************)
(* C17: the iteration over a translation unit realigns the macros of the   *)
(* main file.  A declaration's line is the last line of its extent, as the *)
(* drain loop compares it, so a declaration "entirely above" a macro is    *)
(* one whose last line is above it.                                        *)
(***************************************************************************)
MainMacroIds == {i \in DOMAIN tu : tu[i].main /\ tu[i].kind = "MACRO_DEFINITION"}

MainDeclIds ==
  {i \in DOMAIN tu :
     tu[i].main /\ tu[i].kind \notin {"MACRO_DEFINITION", "MACRO_INSTANTIATION"}}

MacrosArriveFirst == \A m \in MainMacroIds : \A d \in MainDeclIds : m < d

\* where the child with place id i was yielded
YieldedAt(i) == CHOOSE k \in DOMAIN yielded : yielded[k].id = i

\* the later declarations of the main file that reach down to the macro's end line
Receivers(m) == {d \in MainDeclIds : d > m /\ tu[d].end >= tu[m].end}

FirstReceiver(m) == CHOOSE d \in Receivers(m) : \A x \in Receivers(m) : d <= x

EntirelyAbove(m) == {d \in MainDeclIds : tu[d].end < tu[m].line}

OnlyMacrosAt(ks) == \A k \in ks : yielded[k].main /\ yielded[k].kind = "MACRO_DEFINITION"

NoSecondWrapperForACursor ==
  \A i \in DOMAIN wr : \A j \in DOMAIN wr : wr[i].cursor = wr[j].cursor => i = j

\* the wrappers made outside the index
ExtraWrappers == DOMAIN wr \ CursorIds

\* C16, amended: the index holds one wrapper per cursor, the one every lookup of that
\* cursor returns; a second wrapper of a cursor is a placeholder that include_forward
\* or include_opaque_type made, included, and never held by the index
IndexHoldsOneWrapperPerCursor ==
  /\ \A c \in CursorIds \cap DOMAIN wr :
       /\ wr[c].cursor = c
       /\ wr[c].kind = CursorTable[c].kind
       /\ wr[c].decl_type # "FORWARD_ONLY"
  /\ \A i \in ExtraWrappers :
       /\ wr[i].included
       /\ \/ wr[i].kind = "OPAQUE"
          \/ /\ wr[i].decl_type = "FORWARD_ONLY"
             /\ wr[wr[i].cursor].decl_type = "DEFINITION_ONLY"
  /\ Cardinality(ExtraWrappers) <= calls

\* include_forward has made a second wrapper of a struct's cursor
ForwardCloneBesideIndexWrapper ==
  \E i \in ExtraWrappers :
    /\ wr[i].decl_type = "FORWARD_ONLY"
    /\ wr[wr[i].cursor].cursor = wr[i].cursor
    /\ wr[i].cursor # i

(***************************************************************************)
(* C18: a function binding needs the library handle.                       *)
(***************************************************************************)
\* the last write_module call ran over an included function with no library set
FunctionWithoutLibrary ==
  /\ out.status # "none"
  /\ library = NoLibrary
  /\ \E c \in Range(hdr) : out.sel[c].kind = "FUNCTION_DECL" /\ out.sel[c].included

\* C18: with a function included and no library handle, write_module ends with an
\* error and has printed no line: no import, no body line, no export list
NoLibraryFailsBeforeWriting ==
  FunctionWithoutLibrary =>
    /\ out.status # "ok"
    /\ out.imports = <<>> /\ out.body = <<>> /\ out.exports = <<>>

\* the call ended with the assertion of function_code, after the lines of the
\* function's predecessor had been generated
FunctionWithoutLibraryWritten ==
  /\ FunctionWithoutLibrary
  /\ out.status = "AssertionError"
  /\ \E c \in Range(hdr) :
       /\ out.sel[c].kind = "FUNCTION_DECL" /\ out.sel[c].included
       /\ \E p \in out.sel[c].preds : out.sel[p].kind = "STRUCT_DECL"

(***************************************************************************)
(* C19: what the body names from another module is imported.               *)
(***************************************************************************)
\* the (module, symbol) pairs the text of a mapped type names, read off __str__:
\* a declared name, None and an element count name nothing of another module
RECURSIVE ExternalSymbols(_)
ExternalSymbols(w) ==
  CASE w.cls = "PrimitiveCTypesType" -> {<<"ctypes", w.symbol>>}
    [] w.cls = "ConstantArrayType" -> ExternalSymbols(w_type_for_clang_type(w.clang.elem, ""))
    [] w.cls = "FunctionPointerType" ->
         {<<"ctypes", "CFUNCTYPE">>}
           \cup ExternalSymbols(w_type_for_clang_type(w.clang.result, ""))
           \cup UNION {ExternalSymbols(w_type_for_clang_type(w.clang.args[i], "")) :
                         i \in DOMAIN w.clang.args}
    [] w.cls = "PointerType" ->
         {<<"ctypes", "POINTER">>} \cup ExternalSymbols(w_type_for_clang_type(w.clang.to, ""))
    [] OTHER -> {}

\* the base class a class line names
BaseClass(kind) ==
  CASE kind = "STRUCT_DECL" -> <<"ctypes", "Structure">>
    [] kind = "UNION_DECL" -> <<"ctypes", "Union">>
    [] kind = "OPAQUE" -> <<"ctypes", "Structure">>
    [] kind = "ENUM_DECL" -> <<"enum", "IntFlag">>

\* the pairs a written body line names
SymbolsOfLine(l) ==
  CASE l.t = "library" -> {<<"ctypes", "cdll">>}
    [] l.t = "class" -> {BaseClass(out.sel[l.w].kind)}
    [] l.t = "field" ->
         UNION {ExternalSymbols(w_type_for_clang_type(FieldsOf(l.w)[f].type,
                                                      FieldsOf(l.w)[f].brackets)) :
                  f \in DOMAIN FieldsOf(l.w)}
    [] l.t = "typedef" ->
         ExternalSymbols(w_type_for_clang_type(CursorTable[out.sel[l.w].cursor].utype,
                                               CursorTable[out.sel[l.w].cursor].brackets))
    [] l.t = "argtype" ->
         UNION {ExternalSymbols(w_type_for_clang_type(c.type, "")) :
                  c \in {x \in Range(CursorTable[out.sel[l.w].cursor].children) :
                           x.kind = "PARM_DECL"}}
    [] l.t = "restype" ->
         UNION {ExternalSymbols(w_type_for_clang_type(c.type, "")) :
                  c \in {x \in Range(CursorTable[out.sel[l.w].cursor].children) :
                           x.kind = "TYPE_REF"}}
    [] OTHER -> {}

RenderedSymbols == UNION {SymbolsOfLine(out.body[i]) : i \in DOMAIN out.body}

\* the pairs of the import set the last write_module call printed
ImportSet == UNION {{<<gen.imports[i].module, n>> : n \in gen.imports[i].names} :
                      i \in DOMAIN gen.imports}

\* C19: every pair the written body names is in the import set, and the import set
\* is what the import lines at the top were printed from
RenderedSymbolsAreImported ==
  out.status = "ok" =>
    /\ RenderedSymbols \subseteq ImportSet
    /\ out.imports = import_code(gen.imports)
    /\ RenderedSymbols # {} => \E i \in DOMAIN out.imports : out.imports[i].t = "import"

\* a module with a library line, a class, a pointer field and a function binding
ExternalSymbolsWritten ==
  /\ out.status = "ok"
  /\ {<<"ctypes", "cdll">>, <<"ctypes", "Structure">>, <<"ctypes", "POINTER">>,
      <<"ctypes", "c_int">>} \subseteq RenderedSymbols
  /\ \E i \in DOMAIN out.body : out.body[i].t = "argtype"

(***************************************************************************)
(* C20: predecessor cycles.                                                *)
(***************************************************************************)
\* C20: write_module comes to its end over every predecessor graph: a predecessor
\* that is in the middle of being emitted is skipped, so the recursion over the
\* predecessors never runs away, also over a cycle of two declarations or more
WriteModuleSkipsPredecessorsMidEmission == out.status # "RecursionError"

(***************************************************************************)
(* C21: the iteration loses nothing, repeats nothing, and keeps orders.    *)
(***************************************************************************)
MacroDefinitionIds == {i \in DOMAIN tu : tu[i].kind = "MACRO_DEFINITION"}

\* every child is yielded, and none twice
EachChildYieldedOnce ==
  /\ Len(yielded) = Len(tu)
  /\ \A i \in DOMAIN tu : \E k \in DOMAIN yielded : yielded[k] = tu[i]

\* the children S are yielded in the order they arrived in
KeptInOrder(S) == \A i \in S : \A j \in S : i < j => YieldedAt(i) < YieldedAt(j)

\* C21, as stated: every child is yielded once, the macro definitions in their
\* order of arrival and the other children in theirs, whatever the arrangement
MacrosAndDeclarationsKeepTheirOrder ==
  yielded # <<>> =>
    /\ EachChildYieldedOnce
    /\ KeptInOrder(MacroDefinitionIds)
    /\ KeptInOrder(DOMAIN tu \ MacroDefinitionIds)

\* C21, amended: every child is yielded once; the macro definitions of the main
\* file keep their order among themselves, and all other children (the macro
\* definitions of other files among them) keep theirs
PostponedAndPassedKeepTheirOrder ==
  yielded # <<>> =>
    /\ EachChildYieldedOnce
    /\ KeptInOrder(MainMacroIds)
    /\ KeptInOrder(DOMAIN tu \ MainMacroIds)

\* a macro definition of another file was yielded before a macro definition of the
\* main file that arrived before it, and a main-file macro after the last child
MacroOfOtherFileOvertook ==
  /\ yielded # <<>>
  /\ \E m \in MainMacroIds : \E n \in MacroDefinitionIds \ MainMacroIds :
       m < n /\ YieldedAt(n) < YieldedAt(m)
  /\ \E i \in DOMAIN tu : tu[i].kind = "MACRO_INSTANTIATION"
  /\ yielded[Len(yielded)].kind = "MACRO_DEFINITION" /\ yielded[Len(yielded)].main
  /\ tu[Len(tu)].kind = "STRUCT_DECL"

(***************************************************************************)
(* C22.  For every written macro definition: a body of one token gives the *)
(* line "NAME = literal"; a body of a minus sign and a literal gives the   *)
(* line "NAME = -literal"; an empty body, a body of more than two tokens   *)
(* and any other body of two tokens give no line and no export entry; and  *)
(* no macro ends the call with an error.                                   *)
(***************************************************************************)
MacroWrappers ==
  {w \in DOMAIN out.sel : out.sel[w].kind = "MACRO_DEFINITION" /\ out.sel[w].included
                            /\ CursorTable[out.sel[w].cursor].file}

\* the tokens of the macro's body
BodyTokens(w) == Tail(CursorTable[out.sel[w].cursor].tokens)

\* the code line with the comment that may follow it
WithRightComment(code) ==
  {code} \cup {code \o "  " \o py_comment_from_token(t)[1] : t \in {u \in comments : u.text # <<>>}}

MacroLineIs(w, rhs) ==
  /\ LinesAt(w, "macro") # {}
  /\ \A i \in LinesAt(w, "macro") :
       out.body[i].s \in WithRightComment(Name(out.sel[w]) \o " = " \o rhs)

MacroCodeByTokenShape ==
  (out.status # "none" /\ Cardinality(comments) <= 1) =>
    /\ out.status = "ok"
    /\ \A w \in MacroWrappers :
         IF Len(BodyTokens(w)) = 1 THEN MacroLineIs(w, BodyTokens(w)[1])
         ELSE IF Len(BodyTokens(w)) = 2 /\ BodyTokens(w)[1] = "-"
         THEN MacroLineIs(w, "-" \o BodyTokens(w)[2])
         ELSE ~HasLines(w) /\ ~Listed(Alias(out.sel[w]))

(***************************************************************************)
(* C23.  The blank lines between two consecutive top-level items are the   *)
(* maximum of what the first asks for after it and the second before it,   *)
(* so every class-like item (struct, union, enum, opaque placeholder) that *)
(* is not first in the body has at least two blank lines right before its  *)
(* first line, also when a typedef or a macro was emitted just before it.  *)
(***************************************************************************)
ClassLikeKinds == {"STRUCT_DECL", "UNION_DECL", "ENUM_DECL", "OPAQUE"}

\* the coder calls of class-like declarations that yielded a line of text
ClassLikeEmissions ==
  {out.body[i].e : i \in {j \in DOMAIN out.body :
                            /\ out.body[j].s # ""
                            /\ out.body[j].w # 0
                            /\ out.sel[out.body[j].w].kind \in ClassLikeKinds}}

\* the place in the body of the first line of text of coder call e
FirstLineOf(e) ==
  CHOOSE i \in DOMAIN out.body :
    /\ out.body[i].e = e /\ out.body[i].s # ""
    /\ \A j \in 1..(i - 1) : ~(out.body[j].e = e /\ out.body[j].s # "")

BlankAt(i) == i \in DOMAIN out.body /\ out.body[i].s = ""

ClassLikeItemsSetOffByTwoBlankLines ==
  out.status = "ok" =>
    \A e \in ClassLikeEmissions :
      (\E j \in 1..(FirstLineOf(e) - 1) : out.body[j].s # "")
        => BlankAt(FirstLineOf(e) - 1) /\ BlankAt(FirstLineOf(e) - 2)

\* the same, with no declaration emitted twice and no predecessor: the header
\* "enum Level {...}; typedef int IntAlias; struct Z {};" included as a whole
ClassLikeAfterTypedefSetOff ==
  (/\ out.status = "ok"
   /\ \A w \in DOMAIN out.sel : out.sel[w].preds = {} /\ Cardinality(Emissions(w)) <= 1)
    => ClassLikeItemsSetOffByTwoBlankLines

(***************************************************************************)
(* C24.  above_comment yields the cleaned lines of a comment only when     *)
(* exactly one indexed comment token ends on the line right before the     *)
(* declaration's start line; when none or more than one ends there it      *)
(* yields nothing and raises nothing.                                      *)
(***************************************************************************)
\* the included declarations whose coder calls above_comment
AboveCalled ==
  {w \in DOMAIN out.sel :
     /\ out.sel[w].included
     /\ CursorTable[out.sel[w].cursor].file
     /\ \/ out.sel[w].kind = "TYPEDEF_DECL" /\ ~IsNoopTypedef(out.sel[w])
        \/ /\ out.sel[w].kind = "MACRO_DEFINITION"
           /\ \/ Len(BodyTokens(w)) = 1
              \/ Len(BodyTokens(w)) = 2 /\ BodyTokens(w)[2] = "-"}

\* the indexed comments that end on the line before declaration w
EndingAbove(w) == EndLineIndex(StartLine(out.sel[w].cursor, 0) - 1)

\* the comments that start on the line declaration w ends on
StartingRight(w) == StartLineIndex(EndLine(out.sel[w].cursor, 0))

AboveLines(w) == Texts(SelectSeq(out.body, LAMBDA l : l.w = w /\ l.t = "above"))

TheOne(S) == CHOOSE t \in S : TRUE

OneRightCommentAtMost == \A w \in AboveCalled : Cardinality(StartingRight(w)) <= 1

AboveCommentYieldsOrStaysSilent ==
  out.status # "none" =>
    \A w \in AboveCalled :
      IF Cardinality(EndingAbove(w)) = 1
      THEN out.status = "ok" => AboveLines(w) = py_comment_from_token(TheOne(EndingAbove(w)))
      ELSE OneRightCommentAtMost => out.status = "ok" /\ AboveLines(w) = <<>>

(***************************************************************************)
(* C24, amended.  above_comment yields the cleaned lines of the comment    *)
(* when exactly one indexed comment token ends on the line before the      *)
(* declaration, and nothing when none does; when more than one ends there  *)
(* the call ends with an assertion failure and nothing is written.         *)
(***************************************************************************)
AboveCommentYieldsOrAsserts ==
  out.status # "none" =>
    /\ (\E w \in AboveCalled : Cardinality(EndingAbove(w)) > 1)
         => out.status = "AssertionError" /\ out.body = <<>> /\ out.imports = <<>>
    /\ out.status = "ok" =>
         \A w \in AboveCalled :
           /\ Cardinality(EndingAbove(w)) = 1
                => AboveLines(w) = py_comment_from_token(TheOne(EndingAbove(w)))
           /\ EndingAbove(w) = {} => AboveLines(w) = <<>>
    /\ (OneRightCommentAtMost /\ \A w \in AboveCalled : Cardinality(EndingAbove(w)) <= 1)
         => out.status = "ok"

\* write_module has met a declaration with two comments ending on the line before
\* it and no comment on its own line
SeveralCommentsAboveWritten ==
  /\ out.status = "AssertionError"
  /\ \E w \in AboveCalled : Cardinality(EndingAbove(w)) > 1 /\ StartingRight(w) = {}

\* write_module has written a declaration under the two lines of the one comment
\* that ends on the line before it
OneCommentAboveWritten ==
  /\ out.status = "ok"
  /\ \E w \in AboveCalled : Cardinality(EndingAbove(w)) = 1 /\ Len(AboveLines(w)) = 2

(***************************************************************************)
(* C25.  When more than one comment token starts on the line an emitted    *)
(* declaration ends on, right_comment attaches none of them: write_module  *)
(* ends with an assertion failure and nothing is written.                  *)
(***************************************************************************)
SeveralRightCommentsAssert ==
  (/\ out.status # "none"
   /\ \E w \in AboveCalled : Cardinality(StartingRight(w)) > 1)
    => /\ out.status = "AssertionError"
       /\ out.imports = <<>> /\ out.body = <<>> /\ out.exports = <<>>

\* write_module has met a declaration with two comments on its line and at most
\* one comment ending on the line before it
SeveralRightCommentsWritten ==
  /\ out.status = "AssertionError"
  /\ \E w \in AboveCalled : Cardinality(StartingRight(w)) > 1 /\ Cardinality(EndingAbove(w)) <= 1

(***************************************************************************)
(* C26.  On every path of right_comment that does not raise (no comment    *)
(* index, an end location without a file, a file that is not indexed, no   *)
(* comment on the line, an empty comment, a comment with text) the first   *)
(* line it yields is the generated code line, and comment text follows the *)
(* code only when a comment with text starts on the line the declaration   *)
(* ends on.                                                                *)
(***************************************************************************)
\* the included declarations whose coder calls right_comment
RightCalled ==
  {w \in DOMAIN out.sel :
     /\ out.sel[w].included
     /\ \/ out.sel[w].kind = "TYPEDEF_DECL" /\ ~IsNoopTypedef(out.sel[w])
        \/ /\ out.sel[w].kind = "MACRO_DEFINITION"
           /\ \/ Len(BodyTokens(w)) = 1
              \/ Len(BodyTokens(w)) = 2 /\ BodyTokens(w)[2] = "-"}

\* the code line the coder of w hands to right_comment
CodeLineOf(w) ==
  IF out.sel[w].kind = "MACRO_DEFINITION"
  THEN Name(out.sel[w]) \o " = " \o JoinStr(BodyTokens(w), "")
  ELSE Alias(out.sel[w]) \o ": type = "
         \o TypeStr(w_type_for_clang_type(CursorTable[out.sel[w].cursor].utype, ""))

\* the comments with text that start on the line declaration w ends on
TextRight(w) ==
  IF CursorTable[out.sel[w].cursor].file THEN {t \in StartingRight(w) : t.text # <<>>} ELSE {}

CodeLines(w) == Texts(SelectSeq(out.body, LAMBDA l : l.w = w /\ l.t \in {"macro", "typedef"}))

RightCommentKeepsTheCodeLine ==
  out.status = "ok" =>
    \A w \in RightCalled :
      /\ CodeLines(w) # <<>>
      /\ CodeLines(w)[1] =
           IF TextRight(w) = {} THEN CodeLineOf(w)
           ELSE CodeLineOf(w) \o "  " \o py_comment_from_token(TheOne(TextRight(w)))[1]

\* the same for the declarations whose location has a file
RightCommentKeepsTheCodeLineInAFile ==
  out.status = "ok" =>
    \A w \in AboveCalled :
      /\ CodeLines(w) # <<>>
      /\ CodeLines(w)[1] =
           IF TextRight(w) = {} THEN CodeLineOf(w)
           ELSE CodeLineOf(w) \o "  " \o py_comment_from_token(TheOne(TextRight(w)))[1]

(***************************************************************************)
(* C27.  w_type_for_clang_type maps a pointer to char (CHAR_S, SCHAR) to   *)
(* c_char_p, a pointer to wide char to c_wchar_p, a pointer to void to     *)
(* c_void_p, a pointer to a function prototype to a CFUNCTYPE signature,   *)
(* every other pointer to POINTER(mapped pointee), an elaborated type to   *)
(* the mapping of its declaration's type, a kind of the primitive table to *)
(* its symbol, and a kind without a case to the type's spelling; the text  *)
(* the mapped type renders to is the text this reading gives.              *)
(***************************************************************************)
RECURSIVE Rendering(_)
Rendering(t) ==
  CASE t.k = "POINTER" /\ t.to.k \in {"CHAR_S", "SCHAR"} -> "c_char_p"
    [] t.k = "POINTER" /\ t.to.k = "WCHAR" -> "c_wchar_p"
    [] t.k = "POINTER" /\ t.to.k = "VOID" -> "c_void_p"
    [] t.k = "POINTER" /\ t.to.k = "FUNCTIONPROTO" -> Rendering(t.to)
    [] t.k = "POINTER" /\ t.to.k \notin {"CHAR_S", "SCHAR", "WCHAR", "VOID", "FUNCTIONPROTO"} ->
         "POINTER(" \o Rendering(t.to) \o ")"
    [] t.k = "FUNCTIONPROTO" ->
         "CFUNCTYPE(" \o Rendering(t.result) \o ", "
           \o JoinStr([i \in DOMAIN t.args |-> Rendering(t.args[i])], ", ") \o ")"
    [] t.k = "CONSTANTARRAY" -> Rendering(t.elem) \o " * " \o ToString(t.count)
    [] t.k = "ELABORATED" -> Rendering(DeclType(t.decl))
    [] t.k = "VOID" -> "None"
    [] t.k \in DOMAIN primitive_ctype_for_clang_type -> primitive_ctype_for_clang_type[t.k]
    [] OTHER -> IF TypeSpelling(t).tag = "struct " THEN TypeSpelling(t).name
                ELSE TypeSpelling(t).tag \o TypeSpelling(t).name

PointerSymbols == [CHAR_S |-> "c_char_p", SCHAR |-> "c_char_p", WCHAR |-> "c_wchar_p",
                   VOID |-> "c_void_p"]

TypeMappingByKind ==
  mapped.status = "mapped" =>
    /\ mapped.str = Rendering(clang_type)
    /\ (clang_type.k = "POINTER" /\ clang_type.to.k \in DOMAIN PointerSymbols)
         => /\ mapped.w.cls = "PrimitiveCTypesType"
            /\ mapped.w.symbol = PointerSymbols[clang_type.to.k]
    /\ (clang_type.k = "POINTER" /\ clang_type.to.k = "FUNCTIONPROTO")
         => mapped.w.cls = "FunctionPointerType" /\ mapped.w.clang = clang_type.to
    /\ (clang_type.k = "POINTER" /\ clang_type.to.k \notin DOMAIN PointerSymbols \cup {"FUNCTIONPROTO"})
         => mapped.w.cls = "PointerType"
    /\ clang_type.k = "ELABORATED"
         => mapped.w = w_type_for_clang_type(DeclType(clang_type.decl), "")
    /\ clang_type.k \in DOMAIN primitive_ctype_for_clang_type
         => /\ mapped.w.cls = "PrimitiveCTypesType"
            /\ mapped.w.symbol = primitive_ctype_for_clang_type[clang_type.k]
    /\ clang_type.k \in {"INT128", "RECORD", "TYPEDEF"} => mapped.w.cls = "WCTypesType"

\* a pointer to a pointer to char was mapped
NestedCharPointerMapped ==
  /\ mapped.status = "mapped"
  /\ clang_type = TPointer(TPointer(TChar))
  /\ mapped.str = "POINTER(c_char_p)"

(***************************************************************************)
(* C28.  For every composed type (pointer, constant array, function        *)
(* signature) imports() holds the type's own (module, symbol) pairs and    *)
(* all imports of its component types, and dependencies() holds the type's *)
(* own declaration and all dependencies of its component types (pointee,   *)
(* element, result and parameter types).                                   *)
(***************************************************************************)
\* the component types of a mapped type
Components(w) ==
  CASE w.cls = "PointerType" -> {w.clang.to}
    [] w.cls = "ConstantArrayType" -> {w.clang.elem}
    [] w.cls = "FunctionPointerType" -> {w.clang.result} \cup Range(w.clang.args)
    [] OTHER -> {}

OwnImports(w) ==
  CASE w.cls = "PointerType" -> {<<"ctypes", "POINTER">>}
    [] w.cls = "FunctionPointerType" -> {<<"ctypes", "CFUNCTYPE">>}
    [] OTHER -> {}

ImportsPropagate ==
  mapped.status = "mapped" =>
    /\ OwnImports(mapped.w) \subseteq mapped.imports
    /\ \A t \in Components(mapped.w) :
         TypeImports(w_type_for_clang_type(t, "")) \subseteq mapped.imports

DependenciesPropagate ==
  mapped.status = "mapped" =>
    /\ BaseDependencies(mapped.w) \subseteq mapped.dependencies
    /\ \A t \in Components(mapped.w) :
         TypeDependencies(w_type_for_clang_type(t, "")) \subseteq mapped.dependencies

ImportsAndDependenciesPropagate == ImportsPropagate /\ DependenciesPropagate

(***************************************************************************)
(* C29.  The export list write_module writes is strictly increasing in the *)
(* order of the aliases: it is sorted and no alias is listed twice, also   *)
(* when a struct is included with export and include_forward with export   *)
(* is called on it, and when a declaration is emitted both as a            *)
(* predecessor and in its own right.                                       *)
(***************************************************************************)
\* the place of an entry of the list in the order of the aliases
ItemRank(item) == CHOOSE r \in DOMAIN NameOrder : AllItem(NameOrder[r]) = item

ExportListStrictlyIncreasing ==
  out.status = "ok" =>
    \A i \in DOMAIN ExportItems : \A j \in DOMAIN ExportItems :
      i < j => ItemRank(ExportItems[i]) < ItemRank(ExportItems[j])

\* the same list may repeat an alias but never falls
ExportListNeverFalls ==
  out.status = "ok" =>
    \A i \in DOMAIN ExportItems : \A j \in DOMAIN ExportItems :
      i < j => ItemRank(ExportItems[i]) <= ItemRank(ExportItems[j])

\* the whole header was included and the forward clone of A, exported, was put
\* before B: the list names A twice
ExportedCloneAndOriginalListed ==
  /\ out.status = "ok"
  /\ \E w \in DOMAIN out.sel :
       /\ w > NumCursors /\ out.sel[w].decl_type = "FORWARD_ONLY" /\ out.sel[w].exported
       /\ out.sel[out.sel[w].cursor].exported
       /\ out.sel[w].cursor \notin {p \in DOMAIN out.sel : w \in out.sel[p].preds}
       /\ TimesListed(Alias(out.sel[w])) = 2

(***************************************************************************)
(* C30.  When a struct/union S is exposed only as a placeholder, through   *)
(* include_opaque_type(before=B) on a field of B whose type is a pointer   *)
(* to S, and B is emitted, the placeholder class of S is emitted before B  *)
(* and no unexposed-dependency warning names S on account of that field.   *)
(***************************************************************************)
\* the placeholders (o, B): o was made by include_opaque_type(before=B) for the
\* declaration that a pointer field of B names, which is not itself included
Placeholders ==
  {x \in (DOMAIN out.sel) \X (DOMAIN out.sel) :
     /\ x[1] > NumCursors /\ out.sel[x[1]].kind = "OPAQUE"
     /\ x[2] \in StructUnionWrappers /\ x[1] \in out.sel[x[2]].preds
     /\ ~out.sel[out.sel[x[1]].cursor].included
     /\ LinesAt(x[2], "field") # {}}

\* the fields of B whose type is a pointer to the declaration S
PointerFields(B, S) ==
  {f \in DOMAIN FieldsOf(B) :
     FieldsOf(B)[f].type.k = "POINTER" /\ GetDeclaration(FieldsOf(B)[f].type.to) = S}

PlaceholderComesFirst ==
  out.status = "ok" =>
    \A x \in Placeholders :
      \A i \in LinesAt(x[2], "") : \E j \in LinesAt(x[1], "class") : j < i

PlaceholderSilencesTheWarning ==
  out.status = "ok" =>
    \A x \in Placeholders :
      \A f \in PointerFields(x[2], out.sel[x[1]].cursor) :
        \A i \in UnexposedRecords(out.sel[x[1]].cursor) :
          [c |-> out.sel[x[2]].cursor, f |-> f] \notin Range(gen.unexposed[i].dependers)

PlaceholderFirstAndNoWarning == PlaceholderComesFirst /\ PlaceholderSilencesTheWarning

\* B was written with the placeholder of A before it
PlaceholderWritten ==
  /\ out.status = "ok"
  /\ \E x \in Placeholders : PointerFields(x[2], out.sel[x[1]].cursor) # {}

====
